---- MODULE Spec2Model ----
(***************************************************************************)
(* JsonlMemoryStore (backend/memory/stores/jsonl_store.py): an append-only *)
(* JSON-lines store with a per-unit index, a global index and an in-memory *)
(* identifier cache.                                                       *)
(*                                                                         *)
(* Text is a sequence of one-character strings.  A file is a sequence of   *)
(* bytes; a byte is a one-character string, except that a scalar JSON      *)
(* value (an id, a timestamp, a number) is kept as one token.  Lines end   *)
(* in the byte "\n"; json.dumps escapes a newline inside a string as the   *)
(* two bytes "\\" "n".  Index files hold one JSON object per line; they    *)
(* are kept as the sequence of those objects.                              *)
(***************************************************************************)
EXTENDS Integers, Sequences, FiniteSets, TLC

\* ------------------------------------------------------------------ bounds
MaxIds == 3         \* records written in one behaviour (uuid4 draws)
MaxT == 2           \* the wall clock runs over 0..MaxT
MaxForeign == 1     \* lines that other writers leave in the data files

\* ----------------------------------------------------------------- options
None == <<>>
Some(x) == <<x>>
IsNone(o) == o = <<>>
Get(o) == o[1]

\* ------------------------------------------------------------------ Status
OK == 1
NOT_FOUND == 0
IO_ERROR == 0 - 1
INVALID_ADDRESS == 0 - 2
INVALID_PARAM == 0 - 3
Statuses == {OK, NOT_FOUND, IO_ERROR, INVALID_ADDRESS, INVALID_PARAM}

\* ------------------------------------------------------------ text helpers
Whitespace == {" ", "\n", "\t", "\r"}

RECURSIVE LStrip(_, _)
LStrip(s, chars) ==
    IF s # <<>> /\ Head(s) \in chars THEN LStrip(Tail(s), chars) ELSE s

RECURSIVE RStrip(_, _)
RStrip(s, chars) ==
    IF s # <<>> /\ s[Len(s)] \in chars
    THEN RStrip(SubSeq(s, 1, Len(s) - 1), chars)
    ELSE s

\* str.strip(chars)
Strip(s, chars) == RStrip(LStrip(s, chars), chars)

\* str.endswith(suffix)
EndsWith(s, suffix) ==
    /\ Len(s) >= Len(suffix)
    /\ SubSeq(s, Len(s) - Len(suffix) + 1, Len(s)) = suffix

\* str.split("/"): the segments between the slashes, empty ones included
RECURSIVE SplitSlash(_, _, _)
SplitSlash(s, i, cur) ==
    IF i > Len(s) THEN <<cur>>
    ELSE IF s[i] = "/" THEN <<cur>> \o SplitSlash(s, i + 1, <<>>)
    ELSE SplitSlash(s, i + 1, Append(cur, s[i]))

Split(s) == SplitSlash(s, 1, <<>>)

\* every element of the sequence, as a set
Range(s) == {s[i] : i \in 1..Len(s)}

\* -------------------------------------------------------------- conventions
SUMMARY_SEG == <<"_", "_", "s", "u", "m", "m", "a", "r", "y", "_", "_">>

Letters ==
    {"a", "b", "c", "d", "e", "f", "g", "h", "i", "j", "k", "l", "m",
     "n", "o", "p", "q", "r", "s", "t", "u", "v", "w", "x", "y", "z",
     "A", "B", "C", "D", "E", "F", "G", "H", "I", "J", "K", "L", "M",
     "N", "O", "P", "Q", "R", "S", "T", "U", "V", "W", "X", "Y", "Z"}

Digits == {"0", "1", "2", "3", "4", "5", "6", "7", "8", "9"}

\* re.match of ^[A-Za-z0-9_\-/]+$ : $ matches at the end of the string and
\* also just before a newline that ends it
ALLOWED_ADDR(s) ==
    LET body == IF s # <<>> /\ s[Len(s)] = "\n" THEN SubSeq(s, 1, Len(s) - 1) ELSE s
    IN  /\ body # <<>>
        /\ \A i \in 1..Len(body) : body[i] \in Letters \cup Digits \cup {"_", "-", "/"}

\* --------------------------------------------------------- Address / Path
validate_address(address) ==
    LET a == Strip(Strip(address, Whitespace), {"/"})
    IN  IF a = <<>> THEN None
        ELSE IF ~ALLOWED_ADDR(a) THEN None
        ELSE IF \E p \in Range(Split(a)) : p \in {<<".", ".">>, <<".">>, <<>>}
        THEN None
        ELSE Some(a)

\* (unit, stream) of an address; raised = TRUE stands for the ValueError
split_stream(address) ==
    LET addr == Strip(Strip(address, Whitespace), {"/"})
    IN  IF addr = SUMMARY_SEG
        THEN [raised |-> TRUE, unit |-> <<>>, stream |-> "events"]
        ELSE IF EndsWith(addr, <<"/">> \o SUMMARY_SEG)
        THEN LET unit == RStrip(SubSeq(addr, 1, Len(addr) - Len(SUMMARY_SEG)), {"/"})
             IN  IF unit = <<>>
                 THEN [raised |-> TRUE, unit |-> <<>>, stream |-> "events"]
                 ELSE [raised |-> FALSE, unit |-> unit, stream |-> "summary"]
        ELSE [raised |-> FALSE, unit |-> addr, stream |-> "events"]

\* the directories mkdir(parents=True) makes for a unit: the unit's own
\* directory and every ancestor below the base
RECURSIVE PrefixDirs(_, _)
PrefixDirs(unit, i) ==
    IF i > Len(unit) THEN {unit}
    ELSE IF unit[i] = "/"
    THEN {SubSeq(unit, 1, i - 1)} \cup PrefixDirs(unit, i + 1)
    ELSE PrefixDirs(unit, i + 1)

unit_dir(unit) == PrefixDirs(unit, 1)

\* ------------------------------------------------------------------- JSON
\* A JSON object is a function from its keys to their values.  A record of
\* the store has the keys id, ts, t, content and, for a summary written with
\* sources, source_ids.
KeyOrder == <<"id", "ts", "t", "content", "source_ids">>

IdOf(n) == "i" \o ToString(n)
TsOf(t) == "Z" \o ToString(t)

\* ids that no uuid4 draw of the store produces (given as source_ids)
OtherIds == {"x", "y"}

StrToks ==
    {IdOf(n) : n \in 1..(MaxIds + 1)} \cup OtherIds \cup {TsOf(t) : t \in 0..(MaxT + 1)}

IsNumTok(tok) == \E n \in 0..(MaxT + 1) : ToString(n) = tok
NumOfTok(tok) == CHOOSE n \in 0..(MaxT + 1) : ToString(n) = tok

\* mutant: the characters are written as they are
EscapeChar_Raw(c) == <<c>>

\* the escapes json.dumps writes inside a string
EscapeChar(c) ==
    CASE c = "\n" -> <<"\\", "n">>
      [] c = "\r" -> <<"\\", "r">>
      [] c = "\t" -> <<"\\", "t">>
      [] c = "\"" -> <<"\\", "\"">>
      [] c = "\\" -> <<"\\", "\\">>
      [] OTHER -> <<c>>

RECURSIVE EscapeText(_)
EscapeText(s) ==
    IF s = <<>> THEN <<>> ELSE EscapeChar(Head(s)) \o EscapeText(Tail(s))

EncodeValue(key, v) ==
    CASE key = "t" -> <<ToString(v)>>
      [] key = "content" -> <<"\"">> \o EscapeText(v) \o <<"\"">>
      [] key = "source_ids" -> <<"[">> \o v \o <<"]">>
      [] OTHER -> <<v>>

RECURSIVE EncodeFields(_, _)
EncodeFields(obj, i) ==
    IF i > Len(KeyOrder) THEN <<>>
    ELSE (IF KeyOrder[i] \in DOMAIN obj
          THEN <<KeyOrder[i]>> \o EncodeValue(KeyOrder[i], obj[KeyOrder[i]])
          ELSE <<>>) \o EncodeFields(obj, i + 1)

\* json.dumps(obj, ensure_ascii=False).encode("utf-8")
json_dumps(obj) == <<"{">> \o EncodeFields(obj, 1) \o <<"}">>

Fail == [ok |-> FALSE, val |-> <<>>, next |-> 0]

\* the text of a JSON string whose opening quote is at b[i - 1]
RECURSIVE ScanString(_, _, _)
ScanString(b, i, acc) ==
    IF i > Len(b) THEN Fail
    ELSE IF b[i] = "\"" THEN [ok |-> TRUE, val |-> acc, next |-> i + 1]
    ELSE IF b[i] = "\\"
    THEN IF i + 1 > Len(b) THEN Fail
         ELSE CASE b[i + 1] = "n" -> ScanString(b, i + 2, Append(acc, "\n"))
                [] b[i + 1] = "r" -> ScanString(b, i + 2, Append(acc, "\r"))
                [] b[i + 1] = "t" -> ScanString(b, i + 2, Append(acc, "\t"))
                [] b[i + 1] = "\"" -> ScanString(b, i + 2, Append(acc, "\""))
                [] b[i + 1] = "\\" -> ScanString(b, i + 2, Append(acc, "\\"))
                [] OTHER -> Fail
    ELSE IF b[i] \in {"\n", "\r", "\t"} THEN Fail
    ELSE ScanString(b, i + 1, Append(acc, b[i]))

\* the elements of a JSON array of strings whose "[" is at b[i - 1]
RECURSIVE ScanArray(_, _, _)
ScanArray(b, i, acc) ==
    IF i > Len(b) THEN Fail
    ELSE IF b[i] = "]" THEN [ok |-> TRUE, val |-> acc, next |-> i + 1]
    ELSE IF b[i] \in StrToks THEN ScanArray(b, i + 1, Append(acc, b[i]))
    ELSE Fail

RECURSIVE ParseFields(_, _, _)
ParseFields(b, i, acc) ==
    IF i > Len(b) THEN Some(acc)
    ELSE IF i + 1 > Len(b) THEN None
    ELSE CASE b[i] \in {"id", "ts"} ->
                IF b[i + 1] \in StrToks
                THEN ParseFields(b, i + 2, (b[i] :> b[i + 1]) @@ acc)
                ELSE None
           [] b[i] = "t" ->
                IF IsNumTok(b[i + 1])
                THEN ParseFields(b, i + 2, ("t" :> NumOfTok(b[i + 1])) @@ acc)
                ELSE None
           [] b[i] = "content" ->
                IF b[i + 1] # "\"" THEN None
                ELSE LET r == ScanString(b, i + 2, <<>>)
                     IN  IF r.ok
                         THEN ParseFields(b, r.next, ("content" :> r.val) @@ acc)
                         ELSE None
           [] b[i] = "source_ids" ->
                IF b[i + 1] # "[" THEN None
                ELSE LET r == ScanArray(b, i + 2, <<>>)
                     IN  IF r.ok
                         THEN ParseFields(b, r.next, ("source_ids" :> r.val) @@ acc)
                         ELSE None
           [] OTHER -> None

\* a byte that is not valid UTF-8 wherever it stands (0xff)
InvalidUtf8 == "<ff>"

\* json.loads(raw.decode("utf-8")): the object, or None for the exception
\* (of the decoding or of the parsing).  White space around the value is
\* allowed.
json_loads(raw) ==
    LET b == Strip(raw, Whitespace)
    IN  IF InvalidUtf8 \in Range(raw) THEN None
        ELSE IF Len(b) < 2 \/ b[1] # "{" \/ b[Len(b)] # "}" THEN None
        ELSE ParseFields(SubSeq(b, 2, Len(b) - 1), 1, <<>>)

\* ------------------------------------------------------------------ state
VARIABLES
    dirs,              \* the unit directories that exist under the base
    files,             \* path -> content, for every file that exists
    id_cache,          \* self._id_cache: id -> _Loc
    id_cache_loaded,   \* self._id_cache_loaded
    now,               \* the wall clock, in epoch seconds
    nextId,            \* how many ids uuid4 has drawn
    written,           \* history: the writes that returned OK, in call order
    writers,           \* thread -> the frame of the call it is in, step by step
    links              \* the directories and files under the base that are
                       \* symbolic links leading out of it

vars == <<dirs, files, id_cache, id_cache_loaded, now, nextId, written, writers, links>>

\* the store an operation works on: the directory tree and one instance's cache
Store == [dirs |-> dirs, files |-> files, cache |-> id_cache, loaded |-> id_cache_loaded]

Streams == {"events", "summary"}

\* mutant: both streams of a unit share one data file
data_path_OneFile(unit, stream) == <<unit, "events.jsonl">>

\* a path is <<directory below the base, file name>>; the base is <<>>
data_path(unit, stream) ==
    IF stream = "events" THEN <<unit, "events.jsonl">> ELSE <<unit, "summary.jsonl">>

index_path(unit, stream) ==
    IF stream = "events" THEN <<unit, "events.index.jsonl">>
    ELSE <<unit, "summary.index.jsonl">>

global_index_path == <<<<>>, "_global_index.jsonl">>

Exists(fs, path) == path \in DOMAIN fs
Content(fs, path) == IF Exists(fs, path) THEN fs[path] ELSE <<>>
\* unlink (of a file that may be missing)
Remove(fs, path) == [p \in DOMAIN fs \ {path} |-> fs[p]]

\* _unit_dir: mkdir(parents=True, exist_ok=True)
MkUnitDir(S, unit) == [S EXCEPT !.dirs = @ \cup unit_dir(unit)]

\* ---------------------------------------------------- Low-level IO helpers
\* mutant: the payload goes to the front of the file
append_bytes_AtFront(fs, path, payload) ==
    [fs |-> (path :> (payload \o Content(fs, path))) @@ fs,
     offset |-> Len(Content(fs, path)),
     length |-> Len(payload)]

\* mutant: tell() answers 0 whatever the size of the file
append_bytes_TellZero(fs, path, payload) ==
    [fs |-> (path :> (Content(fs, path) \o payload)) @@ fs,
     offset |-> 0,
     length |-> Len(payload)]

\* open(path, "ab"): tell() is the size of the file, the payload goes to its end
append_bytes(fs, path, payload) ==
    [fs |-> (path :> (Content(fs, path) \o payload)) @@ fs,
     offset |-> Len(Content(fs, path)),
     length |-> Len(payload)]

\* mutant: the first of the two, whichever is smaller
Min_First(a, b) == a

Min(a, b) == IF a < b THEN a ELSE b

\* seek(offset), read(length), json.loads; None when the file is missing or
\* the bytes do not decode
read_at(fs, unit, stream, offset, length) ==
    LET p == data_path(unit, stream)
    IN  IF ~Exists(fs, p) THEN None
        ELSE json_loads(SubSeq(fs[p], offset + 1, Min(offset + length, Len(fs[p]))))

\* the lines of a file with the offset each begins at; a line keeps its "\n"
RECURSIVE LinesFrom(_, _, _)
LinesFrom(b, start, i) ==
    IF i > Len(b)
    THEN IF start > Len(b) THEN <<>>
         ELSE <<[offset |-> start - 1, line |-> SubSeq(b, start, Len(b))]>>
    ELSE IF b[i] = "\n"
    THEN <<[offset |-> start - 1, line |-> SubSeq(b, start, i)]>>
         \o LinesFrom(b, i + 1, i + 1)
    ELSE LinesFrom(b, start, i + 1)

\* what tell() and readline() return, call after call, on a file opened "rb"
ReadLines(b) == LinesFrom(b, 1, 1)

\* the lines of a file opened in text mode: "\n", "\r" and "\r\n" all end a line
RECURSIVE TextLines(_, _)
TextLines(b, cur) ==
    IF b = <<>> THEN (IF cur = <<>> THEN <<>> ELSE <<cur>>)
    ELSE IF Head(b) \in {"\n", "\r"} THEN <<cur>> \o TextLines(Tail(b), <<>>)
    ELSE TextLines(Tail(b), Append(cur, Head(b)))

\* --------------------------------------------------------------- write path
\* mutant: the entry's length leaves the newline out
uidx_entry_NoNewline(rec, offset, length) ==
    [id |-> rec.id, t |-> rec.t, offset |-> offset, len |-> length - 1]

uidx_entry(rec, offset, length) ==
    [id |-> rec.id, t |-> rec.t, offset |-> offset, len |-> length]

gidx_entry(rec, unit, stream, offset, length) ==
    [id |-> rec.id, t |-> rec.t, address |-> unit, stream |-> stream,
     offset |-> offset, len |-> length]

Loc(unit, stream, offset, length) ==
    [address |-> unit, stream |-> stream, offset |-> offset, length |-> length]

\* the step of a write that raises, if any; the data append can raise when
\* the file is opened ("data") or, the file made, when the line is written
\* ("data_write")
Faults == {"none", "mkdir", "data", "data_write", "unit_index", "global_index"}

\* open(path, "ab") and nothing written
Touch(fs, path) == (path :> Content(fs, path)) @@ fs

NoWrite == <<>>

\* mutant: a summary record gets no global index entry
append_record_NoGlobalForSummary(S, unit, stream, rec, fault) ==
    LET line == json_dumps(rec) \o <<"\n">>
        S1 == MkUnitDir(S, unit)
        a == append_bytes(S1.files, data_path(unit, stream), line)
        u == append_bytes(a.fs, index_path(unit, stream),
                          <<uidx_entry(rec, a.offset, a.length)>>)
        g == append_bytes(u.fs, global_index_path,
                          <<gidx_entry(rec, unit, stream, a.offset, a.length)>>)
    IN  [S |-> [S1 EXCEPT !.files = IF stream = "summary" THEN u.fs ELSE g.fs,
                          !.cache = (rec.id :> Loc(unit, stream, a.offset, a.length)) @@ @],
         status |-> OK,
         wrote |-> <<[unit |-> unit, stream |-> stream, rec |-> rec,
                      offset |-> a.offset, len |-> a.length]>>]

\* mutant: the cache is not told of the new record
append_record_NoCache(S, unit, stream, rec, fault) ==
    LET a == append_bytes(MkUnitDir(S, unit).files, data_path(unit, stream),
                          json_dumps(rec) \o <<"\n">>)
        u == append_bytes(a.fs, index_path(unit, stream),
                          <<uidx_entry(rec, a.offset, a.length)>>)
        g == append_bytes(u.fs, global_index_path,
                          <<gidx_entry(rec, unit, stream, a.offset, a.length)>>)
    IN  [S |-> [MkUnitDir(S, unit) EXCEPT !.files = g.fs],
         status |-> OK,
         wrote |-> <<[unit |-> unit, stream |-> stream, rec |-> rec,
                      offset |-> a.offset, len |-> a.length]>>]

\* mutant: the global index is appended to before the unit index
append_record_GlobalFirst(S, unit, stream, rec, fault) ==
    LET line == json_dumps(rec) \o <<"\n">>
        S1 == MkUnitDir(S, unit)
        a == append_bytes(S1.files, data_path(unit, stream), line)
        S2 == [S1 EXCEPT !.files = a.fs]
        g == append_bytes(S2.files, global_index_path,
                          <<gidx_entry(rec, unit, stream, a.offset, a.length)>>)
        S3 == [S2 EXCEPT !.files = g.fs]
        u == append_bytes(S3.files, index_path(unit, stream),
                          <<uidx_entry(rec, a.offset, a.length)>>)
        S4 == [S3 EXCEPT !.files = u.fs]
        S5 == [S4 EXCEPT !.cache = (rec.id :> Loc(unit, stream, a.offset, a.length)) @@ @]
    IN  CASE fault = "mkdir" -> [S |-> S, status |-> IO_ERROR, wrote |-> NoWrite]
          [] fault = "data" -> [S |-> S1, status |-> IO_ERROR, wrote |-> NoWrite]
          [] fault = "data_write" ->
               [S |-> [S1 EXCEPT !.files = Touch(@, data_path(unit, stream))],
                status |-> IO_ERROR, wrote |-> NoWrite]
          [] fault = "global_index" -> [S |-> S2, status |-> IO_ERROR, wrote |-> NoWrite]
          [] fault = "unit_index" -> [S |-> S3, status |-> IO_ERROR, wrote |-> NoWrite]
          [] OTHER ->
               [S |-> S5, status |-> OK,
                wrote |-> <<[unit |-> unit, stream |-> stream, rec |-> rec,
                             offset |-> a.offset, len |-> a.length]>>]

\* mutant: a failed index append takes the record out of the data file again
append_record_RollsBack(S, unit, stream, rec, fault) ==
    LET line == json_dumps(rec) \o <<"\n">>
        S1 == MkUnitDir(S, unit)
        a == append_bytes(S1.files, data_path(unit, stream), line)
        u == append_bytes(a.fs, index_path(unit, stream),
                          <<uidx_entry(rec, a.offset, a.length)>>)
        g == append_bytes(u.fs, global_index_path,
                          <<gidx_entry(rec, unit, stream, a.offset, a.length)>>)
    IN  CASE fault = "mkdir" -> [S |-> S, status |-> IO_ERROR, wrote |-> NoWrite]
          [] fault = "data" -> [S |-> S1, status |-> IO_ERROR, wrote |-> NoWrite]
          [] fault \in {"data_write", "unit_index", "global_index"} ->
               [S |-> [S1 EXCEPT !.files = Touch(@, data_path(unit, stream))],
                status |-> IO_ERROR, wrote |-> NoWrite]
          [] OTHER ->
               [S |-> [S1 EXCEPT !.files = g.fs,
                                 !.cache = (rec.id :> Loc(unit, stream, a.offset, a.length))
                                           @@ @],
                status |-> OK,
                wrote |-> <<[unit |-> unit, stream |-> stream, rec |-> rec,
                             offset |-> a.offset, len |-> a.length]>>]

\* The try block of write and of write_summary once rec is built: data file,
\* unit index, global index, cache, in this order.  fault names the step that
\* raises; the steps before it have taken effect.
append_record(S, unit, stream, rec, fault) ==
    LET line == json_dumps(rec) \o <<"\n">>
        S1 == MkUnitDir(S, unit)
        a == append_bytes(S1.files, data_path(unit, stream), line)
        S2 == [S1 EXCEPT !.files = a.fs]
        u == append_bytes(S2.files, index_path(unit, stream),
                          <<uidx_entry(rec, a.offset, a.length)>>)
        S3 == [S2 EXCEPT !.files = u.fs]
        g == append_bytes(S3.files, global_index_path,
                          <<gidx_entry(rec, unit, stream, a.offset, a.length)>>)
        S4 == [S3 EXCEPT !.files = g.fs]
        S5 == [S4 EXCEPT !.cache = (rec.id :> Loc(unit, stream, a.offset, a.length)) @@ @]
    IN  CASE fault = "mkdir" -> [S |-> S, status |-> IO_ERROR, wrote |-> NoWrite]
          [] fault = "data" -> [S |-> S1, status |-> IO_ERROR, wrote |-> NoWrite]
          [] fault = "data_write" ->
               [S |-> [S1 EXCEPT !.files = Touch(@, data_path(unit, stream))],
                status |-> IO_ERROR, wrote |-> NoWrite]
          [] fault = "unit_index" -> [S |-> S2, status |-> IO_ERROR, wrote |-> NoWrite]
          [] fault = "global_index" -> [S |-> S3, status |-> IO_ERROR, wrote |-> NoWrite]
          [] OTHER ->
               [S |-> S5, status |-> OK,
                wrote |-> <<[unit |-> unit, stream |-> stream, rec |-> rec,
                             offset |-> a.offset, len |-> a.length]>>]

\* a call's content argument: text, or a value that is not a str
Text(s) == [isStr |-> TRUE, s |-> s]
NonText == [isStr |-> FALSE, s |-> <<>>]

Unchanged(S, status) == [S |-> S, status |-> status, wrote |-> NoWrite, drew |-> FALSE]

\* write(address, content), with uuid4 drawing id and the clock at t
write(S, address, content, id, t, fault) ==
    LET addr == validate_address(address)
    IN  IF IsNone(addr) THEN Unchanged(S, INVALID_ADDRESS)
        ELSE IF ~content.isStr THEN Unchanged(S, INVALID_PARAM)
        ELSE LET us == split_stream(Get(addr))
             IN  IF us.raised THEN Unchanged(S, IO_ERROR)
                 ELSE LET rec == [id |-> id, ts |-> TsOf(t), t |-> t, content |-> content.s]
                          r == append_record(S, us.unit, us.stream, rec, fault)
                      IN  [S |-> r.S, status |-> r.status, wrote |-> r.wrote, drew |-> TRUE]

\* a call's source_ids argument: None, or a list of ids
NoSources == [given |-> FALSE, ids |-> <<>>]
Sources(ids) == [given |-> TRUE, ids |-> ids]

\* mutant: the summary goes to the events stream
write_summary_ToEvents(S, unit_address, summary_text, source_ids, id, t, fault) ==
    LET addr == validate_address(unit_address)
    IN  IF IsNone(addr) THEN Unchanged(S, INVALID_ADDRESS)
        ELSE IF ~summary_text.isStr THEN Unchanged(S, INVALID_PARAM)
        ELSE LET base == [id |-> id, ts |-> TsOf(t), t |-> t, content |-> summary_text.s]
                 rec == IF source_ids.given /\ source_ids.ids # <<>>
                        THEN ("source_ids" :> source_ids.ids) @@ base
                        ELSE base
                 r == append_record(S, Get(addr), "events", rec, fault)
             IN  [S |-> r.S, status |-> r.status, wrote |-> r.wrote, drew |-> TRUE]

\* write_summary(unit_address, summary_text, source_ids)
write_summary(S, unit_address, summary_text, source_ids, id, t, fault) ==
    LET addr == validate_address(unit_address)
    IN  IF IsNone(addr) THEN Unchanged(S, INVALID_ADDRESS)
        ELSE IF ~summary_text.isStr THEN Unchanged(S, INVALID_PARAM)
        ELSE LET base == [id |-> id, ts |-> TsOf(t), t |-> t, content |-> summary_text.s]
                 rec == IF source_ids.given /\ source_ids.ids # <<>>
                        THEN ("source_ids" :> source_ids.ids) @@ base
                        ELSE base
                 r == append_record(S, Get(addr), "summary", rec, fault)
             IN  [S |-> r.S, status |-> r.status, wrote |-> r.wrote, drew |-> TRUE]

\* ---------------------------------------------------------------- read path
RECURSIVE DecodeLines(_)
DecodeLines(lines) ==
    IF lines = <<>> THEN <<>>
    ELSE LET line == Strip(Head(lines), Whitespace)
         IN  (IF line = <<>> THEN <<>> ELSE json_loads(line)) \o DecodeLines(Tail(lines))

\* mutant: a stream without its unit index is not found
read_NeedsIndex(S, address) ==
    LET addr == validate_address(address)
    IN  IF IsNone(addr) THEN [S |-> S, status |-> INVALID_ADDRESS, out |-> <<>>]
        ELSE LET us == split_stream(Get(addr))
             IN  IF us.raised THEN [S |-> S, status |-> IO_ERROR, out |-> <<>>]
                 ELSE LET S1 == MkUnitDir(S, us.unit)
                          path == data_path(us.unit, us.stream)
                      IN  IF ~Exists(S1.files, path)
                             \/ ~Exists(S1.files, index_path(us.unit, us.stream))
                          THEN [S |-> S1, status |-> NOT_FOUND, out |-> <<>>]
                          ELSE IF InvalidUtf8 \in Range(S1.files[path])
                          THEN [S |-> S1, status |-> IO_ERROR, out |-> <<>>]
                          ELSE [S |-> S1, status |-> OK,
                                out |-> DecodeLines(TextLines(S1.files[path], <<>>))]

\* read(address); _data_path goes through _unit_dir, which makes the directory.
\* The file is opened in text mode with encoding utf-8: a byte that does not
\* decode raises UnicodeDecodeError in the iteration, outside the inner try.
read(S, address) ==
    LET addr == validate_address(address)
    IN  IF IsNone(addr) THEN [S |-> S, status |-> INVALID_ADDRESS, out |-> <<>>]
        ELSE LET us == split_stream(Get(addr))
             IN  IF us.raised THEN [S |-> S, status |-> IO_ERROR, out |-> <<>>]
                 ELSE LET S1 == MkUnitDir(S, us.unit)
                          path == data_path(us.unit, us.stream)
                      IN  IF ~Exists(S1.files, path)
                          THEN [S |-> S1, status |-> NOT_FOUND, out |-> <<>>]
                          ELSE IF InvalidUtf8 \in Range(S1.files[path])
                          THEN [S |-> S1, status |-> IO_ERROR, out |-> <<>>]
                          ELSE [S |-> S1, status |-> OK,
                                out |-> DecodeLines(TextLines(S1.files[path], <<>>))]

\* read_latest_summary(unit_address): out holds the record, or nothing
read_latest_summary(S, unit_address) ==
    LET r == read(S, Strip(Strip(unit_address, Whitespace), {"/"}) \o <<"/">> \o SUMMARY_SEG)
    IN  IF r.status # OK \/ r.out = <<>>
        THEN [S |-> r.S, status |-> r.status, out |-> <<>>]
        ELSE [S |-> r.S, status |-> OK, out |-> <<r.out[Len(r.out)]>>]

\* ------------------------------------------------------ ID / Time search
\* the isinstance checks on a line of the global index
ValidGlobalEntry(obj) ==
    /\ {"id", "address", "stream", "offset", "len"} \subseteq DOMAIN obj
    /\ obj.stream \in Streams

\* the isinstance checks of query_by_time on a line of the global index
ValidLocation(obj) ==
    /\ {"address", "stream", "offset", "len"} \subseteq DOMAIN obj
    /\ obj.stream \in Streams

RECURSIVE CacheFrom(_, _)
CacheFrom(lines, cache) ==
    IF lines = <<>> THEN cache
    ELSE LET obj == Head(lines)
         IN  CacheFrom(Tail(lines),
                       IF ValidGlobalEntry(obj)
                       THEN (obj.id :> Loc(obj.address, obj.stream, obj.offset, obj.len))
                            @@ cache
                       ELSE cache)

\* _load_id_cache_once
load_id_cache_once(S) ==
    IF S.loaded THEN S
    ELSE IF ~Exists(S.files, global_index_path) THEN [S EXCEPT !.loaded = TRUE]
    ELSE [S EXCEPT !.loaded = TRUE,
                   !.cache = CacheFrom(S.files[global_index_path], S.cache)]

\* a record_id that is empty or blank
BlankIds == {"", " "}

\* a record_id that is not a str: the values None and 7
NonStrIds == {"<None>", "<7>"}

\* mutant: the cache is loaded before the id is looked at
get_by_id_LoadsFirst(S, record_id) ==
    LET S1 == load_id_cache_once(S)
    IN  IF record_id \in NonStrIds \cup BlankIds
        THEN [S |-> S1, status |-> INVALID_PARAM, out |-> <<>>]
        ELSE IF record_id \notin DOMAIN S1.cache
        THEN [S |-> S1, status |-> NOT_FOUND, out |-> <<>>]
        ELSE LET loc == S1.cache[record_id]
                 S2 == MkUnitDir(S1, loc.address)
                 rec == read_at(S2.files, loc.address, loc.stream, loc.offset, loc.length)
             IN  IF IsNone(rec) THEN [S |-> S2, status |-> IO_ERROR, out |-> <<>>]
                 ELSE [S |-> S2, status |-> OK, out |-> rec]

\* mutant: a location that cannot be read counts as not found
get_by_id_FailureNotFound(S, record_id) ==
    IF record_id \in NonStrIds \cup BlankIds THEN [S |-> S, status |-> INVALID_PARAM, out |-> <<>>]
    ELSE LET S1 == load_id_cache_once(S)
         IN  IF record_id \notin DOMAIN S1.cache
             THEN [S |-> S1, status |-> NOT_FOUND, out |-> <<>>]
             ELSE LET loc == S1.cache[record_id]
                      S2 == MkUnitDir(S1, loc.address)
                      rec == read_at(S2.files, loc.address, loc.stream, loc.offset, loc.length)
                  IN  IF IsNone(rec) THEN [S |-> S2, status |-> NOT_FOUND, out |-> <<>>]
                      ELSE [S |-> S2, status |-> OK, out |-> rec]

\* get_by_id(record_id): out holds the record, or nothing
get_by_id(S, record_id) ==
    IF record_id \in NonStrIds \cup BlankIds THEN [S |-> S, status |-> INVALID_PARAM, out |-> <<>>]
    ELSE LET S1 == load_id_cache_once(S)
         IN  IF record_id \notin DOMAIN S1.cache
             THEN [S |-> S1, status |-> NOT_FOUND, out |-> <<>>]
             ELSE LET loc == S1.cache[record_id]
                      S2 == MkUnitDir(S1, loc.address)
                      rec == read_at(S2.files, loc.address, loc.stream, loc.offset, loc.length)
                  IN  IF IsNone(rec) THEN [S |-> S2, status |-> IO_ERROR, out |-> <<>>]
                      ELSE [S |-> S2, status |-> OK, out |-> rec]

\* a start/end argument: epoch seconds, or a value _to_epoch_seconds cannot
\* convert
Epoch(n) == [kind |-> "int", v |-> n]
BadTime == [kind |-> "bad", v |-> 0]

\* mutant: a value that cannot be converted counts as time 0
to_epoch_seconds_Zero(x) == [raised |-> FALSE, v |-> x.v]

to_epoch_seconds(x) ==
    IF x.kind = "int" THEN [raised |-> FALSE, v |-> x.v] ELSE [raised |-> TRUE, v |-> 0]

\* an optional argument that was not given
Absent == <<>>

\* a limit that is given and is not an int: the float x
NonInt(x) == <<x, "float">>

\* mutant: the end of the window is excluded
InWindow_EndExcluded(obj, t0, t1) == "t" \in DOMAIN obj /\ obj.t >= t0 /\ obj.t < t1

\* the test query_by_time puts an index line to: an integer t in [t0, t1]
InWindow(obj, t0, t1) == "t" \in DOMAIN obj /\ obj.t >= t0 /\ obj.t <= t1

\* mutant: the scan stops one match late
LimitReached_OneLate(limit, out) == limit # Absent /\ Len(out) > Get(limit)

\* the test that ends the scan: limit is given and out holds limit records
LimitReached(limit, out) == limit # Absent /\ Len(out) >= Get(limit)

\* the scan of an index file: the records of the entries in the window, in
\* index order, until limit records are collected.  dirs collects the
\* directories _read_at makes on the way.
RECURSIVE ScanIndex(_, _, _, _, _, _, _, _)
ScanIndex(fs, lines, t0, t1, unit, stream, limit, acc) ==
    IF lines = <<>> THEN acc
    ELSE LET obj == Head(lines)
             rest == Tail(lines)
             skip == ScanIndex(fs, rest, t0, t1, unit, stream, limit, acc)
         IN  IF ~InWindow(obj, t0, t1) THEN skip
             ELSE IF unit = Absent
             THEN \* a line of the global index
                  IF ~ValidLocation(obj) THEN skip
                  ELSE IF stream # Absent /\ obj.stream # Get(stream) THEN skip
                  ELSE LET rec == read_at(fs, obj.address, obj.stream, obj.offset, obj.len)
                           acc1 == [out |-> acc.out \o rec,
                                    dirs |-> acc.dirs \cup unit_dir(obj.address)]
                       IN  IF IsNone(rec)
                           THEN ScanIndex(fs, rest, t0, t1, unit, stream, limit,
                                          [acc EXCEPT !.dirs = acc1.dirs])
                           ELSE IF LimitReached(limit, acc1.out) THEN acc1
                           ELSE ScanIndex(fs, rest, t0, t1, unit, stream, limit, acc1)
             ELSE \* a line of a unit index
                  IF ~({"offset", "len"} \subseteq DOMAIN obj) THEN skip
                  ELSE LET rec == read_at(fs, Get(unit), Get(stream), obj.offset, obj.len)
                           acc1 == [acc EXCEPT !.out = @ \o rec]
                       IN  IF IsNone(rec) THEN skip
                           ELSE IF LimitReached(limit, acc1.out) THEN acc1
                           ELSE ScanIndex(fs, rest, t0, t1, unit, stream, limit, acc1)

\* query_by_time(start, end, address=None, stream=None, limit=None)
query_by_time(S, start, end, address, stream, limit) ==
    LET a == to_epoch_seconds(start)
        b == to_epoch_seconds(end)
        t0 == Min(a.v, b.v)
        t1 == IF a.v < b.v THEN b.v ELSE a.v
    IN  IF a.raised \/ b.raised THEN [S |-> S, status |-> INVALID_PARAM, out |-> <<>>]
        ELSE IF limit # Absent /\ (Len(limit) # 1 \/ Get(limit) <= 0)
        THEN [S |-> S, status |-> INVALID_PARAM, out |-> <<>>]
        ELSE IF stream # Absent /\ Get(stream) \notin Streams
        THEN [S |-> S, status |-> INVALID_PARAM, out |-> <<>>]
        ELSE IF address = Absent
        THEN IF ~Exists(S.files, global_index_path)
             THEN [S |-> S, status |-> NOT_FOUND, out |-> <<>>]
             ELSE LET r == ScanIndex(S.files, S.files[global_index_path], t0, t1,
                                     Absent, stream, limit,
                                     [out |-> <<>>, dirs |-> S.dirs])
                  IN  [S |-> [S EXCEPT !.dirs = r.dirs], status |-> OK, out |-> r.out]
        ELSE LET unit == validate_address(Get(address))
             IN  IF IsNone(unit) THEN [S |-> S, status |-> INVALID_ADDRESS, out |-> <<>>]
                 ELSE LET s == IF stream = Absent THEN "events" ELSE Get(stream)
                          S1 == MkUnitDir(S, Get(unit))
                          idx == index_path(Get(unit), s)
                      IN  IF ~Exists(S1.files, idx)
                          THEN [S |-> S1, status |-> NOT_FOUND, out |-> <<>>]
                          ELSE LET r == ScanIndex(S1.files, S1.files[idx], t0, t1,
                                                  unit, Some(s), limit,
                                                  [out |-> <<>>, dirs |-> S1.dirs])
                               IN  [S |-> S1, status |-> OK, out |-> r.out]

\* ------------------------------------------------------ Index maintenance
\* mutant: the length leaves the newline out
RECURSIVE UnitEntries_NoNewline(_, _)
UnitEntries_NoNewline(lines, t) ==
    IF lines = <<>> THEN <<>>
    ELSE LET l == Head(lines)
             obj == json_loads(l.line)
         IN  (IF IsNone(obj) \/ "id" \notin DOMAIN Get(obj) THEN <<>>
              ELSE <<[id |-> Get(obj).id,
                      t |-> IF "t" \in DOMAIN Get(obj) THEN Get(obj).t ELSE t,
                      offset |-> l.offset,
                      len |-> Len(l.line) - 1]>>)
             \o UnitEntries_NoNewline(Tail(lines), t)

\* mutant: every entry gets the time of the scan
RECURSIVE UnitEntries_ClockAlways(_, _)
UnitEntries_ClockAlways(lines, t) ==
    IF lines = <<>> THEN <<>>
    ELSE LET l == Head(lines)
             obj == json_loads(l.line)
         IN  (IF IsNone(obj) \/ "id" \notin DOMAIN Get(obj) THEN <<>>
              ELSE <<[id |-> Get(obj).id, t |-> t, offset |-> l.offset,
                      len |-> Len(l.line)]>>)
             \o UnitEntries_ClockAlways(Tail(lines), t)

\* the index entries of the lines of a data file: one for every line that
\* decodes to an object with an id; a missing t becomes the time of the scan
RECURSIVE UnitEntries(_, _)
UnitEntries(lines, t) ==
    IF lines = <<>> THEN <<>>
    ELSE LET l == Head(lines)
             obj == json_loads(l.line)
         IN  (IF IsNone(obj) \/ "id" \notin DOMAIN Get(obj) THEN <<>>
              ELSE <<[id |-> Get(obj).id,
                      t |-> IF "t" \in DOMAIN Get(obj) THEN Get(obj).t ELSE t,
                      offset |-> l.offset,
                      len |-> Len(l.line)]>>)
             \o UnitEntries(Tail(lines), t)

\* mutant: the cache is cleared, as the global rebuild does
rebuild_unit_index_ClearsCache(S, unit_address, stream, t) ==
    LET unit == validate_address(unit_address)
    IN  IF IsNone(unit) THEN [S |-> S, status |-> INVALID_ADDRESS]
        ELSE IF stream \notin Streams THEN [S |-> S, status |-> INVALID_PARAM]
        ELSE LET S1 == MkUnitDir(S, Get(unit))
                 data == data_path(Get(unit), stream)
             IN  IF ~Exists(S1.files, data) THEN [S |-> S1, status |-> NOT_FOUND]
                 ELSE LET tmp == UnitEntries(ReadLines(S1.files[data]), t)
                      IN  [S |-> [S1 EXCEPT !.files =
                                     (index_path(Get(unit), stream) :> tmp) @@ @,
                                            !.cache = <<>>,
                                            !.loaded = FALSE],
                           status |-> OK]

\* rebuild_unit_index(unit_address, stream), with the clock at t
rebuild_unit_index(S, unit_address, stream, t) ==
    LET unit == validate_address(unit_address)
    IN  IF IsNone(unit) THEN [S |-> S, status |-> INVALID_ADDRESS]
        ELSE IF stream \notin Streams THEN [S |-> S, status |-> INVALID_PARAM]
        ELSE LET S1 == MkUnitDir(S, Get(unit))
                 data == data_path(Get(unit), stream)
             IN  IF ~Exists(S1.files, data) THEN [S |-> S1, status |-> NOT_FOUND]
                 ELSE LET tmp == UnitEntries(ReadLines(S1.files[data]), t)
                      IN  \* os.replace(tmp, idx)
                          [S |-> [S1 EXCEPT !.files =
                                     (index_path(Get(unit), stream) :> tmp) @@ @],
                           status |-> OK]

GlobalEntries(entries, unit, stream) ==
    [i \in 1..Len(entries) |->
        [id |-> entries[i].id, t |-> entries[i].t, address |-> unit, stream |-> stream,
         offset |-> entries[i].offset, len |-> entries[i].len]]

\* the events.jsonl / summary.jsonl files under the base
DataFiles(fs) == {p \in DOMAIN fs : p[2] \in {"events.jsonl", "summary.jsonl"}}

\* unit is directory d or lies below it
IsUnder(unit, d) ==
    \/ d = <<>>
    \/ unit = d
    \/ Len(unit) > Len(d) /\ SubSeq(unit, 1, Len(d) + 1) = d \o <<"/">>

\* The orders in which base.rglob("*.jsonl") can yield the data files: a
\* top-down walk, so the files of one directory come together, before those of
\* its subdirectories, and a subtree is not interrupted; the order among the
\* entries of one directory is the file system's.
WalkOrders(fs) ==
    LET F == DataFiles(fs)
        n == Cardinality(F)
        D == UNION {unit_dir(p[1]) : p \in F}
    IN  {w \in [1..n -> F] :
            /\ \A i, j \in 1..n : i # j => w[i] # w[j]
            /\ \A d \in D : \A i, j, k \in 1..n :
                  (i < j /\ j < k /\ IsUnder(w[i][1], d) /\ IsUnder(w[k][1], d))
                      => IsUnder(w[j][1], d)
            /\ \A i, j \in 1..n :
                  (w[i][1] # w[j][1] /\ IsUnder(w[j][1], w[i][1])) => i < j}

RECURSIVE GlobalScan(_, _, _)
GlobalScan(fs, walk, t) ==
    IF walk = <<>> THEN <<>>
    ELSE LET data_file == Head(walk)
             stream == IF data_file[2] = "events.jsonl" THEN "events" ELSE "summary"
             unit == data_file[1]
         IN  (IF IsNone(validate_address(unit)) THEN <<>>
              ELSE GlobalEntries(UnitEntries(ReadLines(fs[data_file]), t), unit, stream))
             \o GlobalScan(fs, Tail(walk), t)

\* mutant: the cache is left as it is
rebuild_global_index_KeepsCache(S, walk, t) ==
    [S |-> [S EXCEPT !.files = (global_index_path :> GlobalScan(S.files, walk, t)) @@ @],
     status |-> OK]

\* rebuild_global_index(), with rglob yielding the data files in the order
\* walk and the clock at t
rebuild_global_index(S, walk, t) ==
    [S |-> [S EXCEPT !.files = (global_index_path :> GlobalScan(S.files, walk, t)) @@ @,
                     !.cache = <<>>,
                     !.loaded = FALSE],
     status |-> OK]

\* ------------------------------------------------- faults in the rebuilds
\* not a Status: the exception left the operation (or the process died)
RAISED == 0 - 100

\* idx.with_suffix(".tmp")
tmp_path(idx) ==
    <<idx[1], CASE idx[2] = "events.index.jsonl" -> "events.index.tmp"
                [] idx[2] = "summary.index.jsonl" -> "summary.index.tmp"
                [] OTHER -> "_global_index.tmp">>

\* the step of a rebuild or of a query that raises, if any: making the unit
\* directory, opening the files, the scan, os.replace
StepFaults == {"none", "mkdir", "open", "scan", "replace"}

\* the process is gone: what the next instance finds
Died(S) == [S EXCEPT !.cache = <<>>, !.loaded = FALSE]

\* mutant: a rebuild that fails removes the index file as well
AfterFault_DropsIndex(fs, idx, new, fault, done, crash) ==
    Remove(Remove(fs, tmp_path(idx)), idx)

\* The files once a rebuild has met its fault: at "scan" the temporary file
\* holds the first done entries, at "replace" all of them; the except branch
\* unlinks it, a process that dies leaves it.  The index file is not touched.
AfterFault(fs, idx, new, fault, done, crash) ==
    IF ~crash \/ fault = "open" THEN Remove(fs, tmp_path(idx))
    ELSE (tmp_path(idx) :> (IF fault = "scan" THEN SubSeq(new, 1, Min(done, Len(new)))
                            ELSE new)) @@ fs

\* mutant: the entries are written to the index file itself
rebuild_unit_index_at_InPlace(S, unit_address, stream, t, fault, done, crash) ==
    LET unit == validate_address(unit_address)
        r == rebuild_unit_index(S, unit_address, stream, t)
    IN  IF IsNone(unit) \/ stream \notin Streams \/ fault = "none" THEN r
        ELSE IF fault = "mkdir" THEN [S |-> IF crash THEN Died(S) ELSE S, status |-> RAISED]
        ELSE IF r.status = NOT_FOUND THEN r
        ELSE LET idx == index_path(Get(unit), stream)
                 S1 == MkUnitDir(S, Get(unit))
                 new == r.S.files[idx]
                 part == IF fault = "open" THEN <<>>
                         ELSE IF fault = "scan" THEN SubSeq(new, 1, Min(done, Len(new)))
                         ELSE new
                 S2 == [S1 EXCEPT !.files = (idx :> part) @@ @]
             IN  IF crash THEN [S |-> Died(S2), status |-> RAISED]
                 ELSE [S |-> S2, status |-> IO_ERROR]

\* rebuild_unit_index in which step fault raises, or in which the process
\* dies at that step (crash); _data_path and _index_path, and so the mkdir,
\* are called outside the try
rebuild_unit_index_at(S, unit_address, stream, t, fault, done, crash) ==
    LET unit == validate_address(unit_address)
        r == rebuild_unit_index(S, unit_address, stream, t)
    IN  IF IsNone(unit) \/ stream \notin Streams \/ fault = "none" THEN r
        ELSE IF fault = "mkdir" THEN [S |-> IF crash THEN Died(S) ELSE S, status |-> RAISED]
        ELSE IF r.status = NOT_FOUND THEN r
        ELSE LET idx == index_path(Get(unit), stream)
                 S1 == MkUnitDir(S, Get(unit))
                 S2 == [S1 EXCEPT !.files =
                           AfterFault(@, idx, r.S.files[idx], fault, done, crash)]
             IN  IF crash THEN [S |-> Died(S2), status |-> RAISED]
                 ELSE [S |-> S2, status |-> IO_ERROR]

\* rebuild_global_index in which step fault raises or the process dies; it
\* makes no directory
rebuild_global_index_at(S, walk, t, fault, done, crash) ==
    LET r == rebuild_global_index(S, walk, t)
    IN  IF fault \in {"none", "mkdir"} THEN r
        ELSE LET S2 == [S EXCEPT !.files =
                           AfterFault(@, global_index_path, r.S.files[global_index_path],
                                      fault, done, crash)]
             IN  IF crash THEN [S |-> Died(S2), status |-> RAISED]
                 ELSE [S |-> S2, status |-> IO_ERROR]

\* query_by_time in which step fault raises: in a unit query _index_path,
\* and so the mkdir, is called outside the try; the rest is inside it
query_by_time_at(S, start, end, address, stream, limit, fault) ==
    LET r == query_by_time(S, start, end, address, stream, limit)
    IN  IF r.status \in {INVALID_PARAM, INVALID_ADDRESS} \/ fault \in {"none", "replace"} THEN r
        ELSE IF address # Absent /\ fault = "mkdir"
        THEN [S |-> S, status |-> RAISED, out |-> <<>>]
        ELSE IF r.status = NOT_FOUND THEN r
        ELSE [S |-> IF address = Absent THEN S
                    ELSE MkUnitDir(S, Get(validate_address(Get(address)))),
              status |-> IO_ERROR, out |-> <<>>]

\* ---------------------------------------------------------------- inputs
AddrA == <<"a">>
AddrASlashes == <<" ", "/", "a", "/">>
AddrASummary == <<"a", "/">> \o SUMMARY_SEG
AddrB == <<"b">>
AddrDotDot == <<".", ".", "/", "a">>
AddrBareSummary == SUMMARY_SEG
AddrNewline == <<"a", "\n", "/">>

\* addresses the validation is to reject: empty after trimming, a ".."
\* segment, a "." segment, an empty segment, a character outside the
\* allowed set (inside the address, or a newline left at its end)
RejectedAddresses ==
    {<<" ", "/", " ">>, AddrDotDot, <<"a", "/", ".">>, <<"a", "/", "/", "b">>, <<"a", "$">>,
     AddrNewline}

Addresses == {AddrA, AddrASlashes, AddrASummary, AddrB, AddrDotDot, AddrBareSummary}
WriteAddresses == {AddrA, AddrASummary, AddrB, AddrDotDot, AddrBareSummary}
SummaryUnits == {AddrA, AddrDotDot}
Texts == {Text(<<"a">>), Text(<<"b", "\n">>)}
Contents == Texts \cup {NonText}
SourceLists == {NoSources, Sources(<<>>), Sources(<<"x", "y">>)}
Ids == {IdOf(n) : n \in 1..MaxIds}
Times == 0..MaxT
QueryTimes == {Epoch(t) : t \in Times} \cup {BadTime}

\* --------------------------------------------------------------- actions
\* the store after a call
Apply(S) ==
    \E s \in {S} :
        /\ dirs' = s.dirs
        /\ files' = s.files
        /\ id_cache' = s.cache
        /\ id_cache_loaded' = s.loaded
        /\ UNCHANGED <<writers, links>>

\* a write or write_summary call that returned r
Wrote(r) ==
    \E c \in {r} :
        /\ c.drew => nextId < MaxIds
        /\ Apply(c.S)
        /\ nextId' = IF c.drew THEN nextId + 1 ELSE nextId
        /\ written' = written \o c.wrote
        /\ UNCHANGED now

\* the threads that call write at the same time
Threads == {1, 2}

\* the frame of a thread that is not inside write
Idle == [pc |-> "idle", unit |-> <<>>, stream |-> "", rec |-> <<>>, offset |-> 0, length |-> 0]

\* __init__: the base directory exists and is empty, the cache is empty
Init ==
    /\ writers = [th \in Threads |-> Idle]
    /\ links = [dirs |-> {}, files |-> {}]
    /\ dirs = {}
    /\ files = <<>>
    /\ id_cache = <<>>
    /\ id_cache_loaded = FALSE
    /\ now = 0
    /\ nextId = 0
    /\ written = <<>>

Write ==
    \E address \in WriteAddresses, content \in Contents :
        Wrote(write(Store, address, content, IdOf(nextId + 1), now, "none"))

WriteSummary ==
    \E unit \in SummaryUnits, text \in Contents, src \in SourceLists :
        Wrote(write_summary(Store, unit, text, src, IdOf(nextId + 1), now, "none"))

\* write of one text to an events stream
WriteText ==
    \E address \in {AddrA, AddrB} :
        Wrote(write(Store, address, Text(<<"a">>), IdOf(nextId + 1), now, "none"))

\* a write in which one step raises (or the process dies there)
WriteFault ==
    \E address \in {AddrA, AddrB}, content \in Texts, fault \in Faults \ {"none"} :
        Wrote(write(Store, address, content, IdOf(nextId + 1), now, fault))

\* a write in which the append to the unit index or to the global index raises
WriteFaultAtIndex ==
    \E address \in {AddrA, AddrB}, fault \in {"unit_index", "global_index"} :
        Wrote(write(Store, address, Text(<<"a">>), IdOf(nextId + 1), now, fault))

WriteSummaryFault ==
    \E text \in Texts, fault \in Faults \ {"none"} :
        Wrote(write_summary(Store, AddrA, text, NoSources, IdOf(nextId + 1), now, fault))

Read ==
    \E address \in Addresses :
        /\ Apply(read(Store, address).S)
        /\ UNCHANGED <<now, nextId, written>>

ReadLatestSummary ==
    \E unit \in SummaryUnits :
        /\ Apply(read_latest_summary(Store, unit).S)
        /\ UNCHANGED <<now, nextId, written>>

GetById ==
    \E id \in Ids \cup BlankIds \cup NonStrIds \cup OtherIds :
        /\ Apply(get_by_id(Store, id).S)
        /\ UNCHANGED <<now, nextId, written>>

QueryByTime ==
    \E start \in QueryTimes, end \in QueryTimes, address \in {Absent, Some(AddrB)},
       stream \in {Absent, Some("other")}, limit \in {Absent, Some(2), Some(0), NonInt(2)} :
        /\ Apply(query_by_time(Store, start, end, address, stream, limit).S)
        /\ UNCHANGED <<now, nextId, written>>

RebuildUnitIndex ==
    \E unit \in {AddrA, AddrB}, stream \in Streams :
        /\ Apply(rebuild_unit_index(Store, unit, stream, now).S)
        /\ UNCHANGED <<now, nextId, written>>

RebuildGlobalIndex ==
    \E walk \in WalkOrders(files) :
        /\ Apply(rebuild_global_index(Store, walk, now).S)
        /\ UNCHANGED <<now, nextId, written>>

\* a rebuild of a unit index that may fail or die at any step
RebuildUnitIndexAt ==
    \E unit \in {AddrA, AddrB}, stream \in Streams, fault \in StepFaults,
       done \in 1..(MaxIds - 1), crash \in BOOLEAN :
        /\ Apply(rebuild_unit_index_at(Store, unit, stream, now, fault, done, crash).S)
        /\ UNCHANGED <<now, nextId, written>>

\* a rebuild of the global index that may fail or die at any step
RebuildGlobalIndexAt ==
    \E walk \in WalkOrders(files), fault \in StepFaults, done \in 1..(MaxIds - 1),
       crash \in BOOLEAN :
        /\ Apply(rebuild_global_index_at(Store, walk, now, fault, done, crash).S)
        /\ UNCHANGED <<now, nextId, written>>

\* a query in which a step may fail
QueryByTimeAt ==
    \E address \in {Absent, Some(AddrB)}, fault \in StepFaults :
        /\ Apply(query_by_time_at(Store, Epoch(0), Epoch(MaxT), address, Absent, Absent,
                                  fault).S)
        /\ UNCHANGED <<now, nextId, written>>

\* ---- symbolic links.  A file of the model that is in links.files has its
\* content outside the base: open follows the link.

\* _unit_dir resolves base / unit_address and raises when the result is not
\* the base or below it, which is so when unit or a directory above it is a
\* link leading out; given as the step of an operation that raises
UnitDirFault(unit) == IF unit_dir(unit) \cap links.dirs # {} THEN "mkdir" ELSE "none"

\* somebody puts a link that leads out of the base where a unit directory or
\* a data file would be
PlantLink ==
    /\ links = [dirs |-> {}, files |-> {}]
    /\ \/ \E d \in {AddrA, AddrB} :
             /\ d \notin dirs
             /\ links' = [links EXCEPT !.dirs = {d}]
             /\ UNCHANGED dirs
       \/ \E u \in {AddrA, AddrB} :
             /\ ~Exists(files, data_path(u, "events"))
             /\ links' = [links EXCEPT !.files = {data_path(u, "events")}]
             /\ dirs' = dirs \cup unit_dir(u)
    /\ UNCHANGED <<files, id_cache, id_cache_loaded, now, nextId, written, writers>>

\* a write where links may be in the way
WriteLinked ==
    \E address \in {AddrA, AddrB} :
        Wrote(write(Store, address, Text(<<"a">>), IdOf(nextId + 1), now,
                    UnitDirFault(address)))

\* a read, a query or a unit rebuild where links may be in the way
LookupLinked ==
    \E u \in {AddrA, AddrB} :
        /\ \/ Apply(IF UnitDirFault(u) = "none" THEN read(Store, u).S ELSE Store)
           \/ Apply(query_by_time_at(Store, Epoch(0), Epoch(MaxT), Some(u), Absent, Absent,
                                     UnitDirFault(u)).S)
           \/ Apply(rebuild_unit_index_at(Store, u, "events", now, UnitDirFault(u), 1,
                                          FALSE).S)
        /\ UNCHANGED <<now, nextId, written>>

\* ---- write(address, content) step by step, for threads that overlap.  The
\* steps are those between which another thread can run: _append_bytes reads
\* the end-of-file offset of the file it opened (tell) and appends the payload
\* (write, flush) as two steps; an append itself is one write to a file opened
\* in append mode, which lands whole at the end the file has at that moment.

\* thread th enters write: the address is validated and split, the record is
\* built
WriterBegin(th, address, content) ==
    LET us == split_stream(Get(validate_address(address)))
    IN  /\ writers[th].pc = "idle"
        /\ nextId < MaxIds
        /\ writers' = [writers EXCEPT ![th] =
                          [pc |-> "tell", unit |-> us.unit, stream |-> us.stream,
                           rec |-> [id |-> IdOf(nextId + 1), ts |-> TsOf(now), t |-> now,
                                    content |-> content.s],
                           offset |-> 0, length |-> 0]]
        /\ nextId' = nextId + 1
        /\ UNCHANGED <<dirs, files, id_cache, id_cache_loaded, now, written, links>>

\* _data_path makes the unit directory; _append_bytes opens the data file for
\* appending, which creates it, and reads the offset of its end
WriterTell(th) ==
    LET w == writers[th]
        data == data_path(w.unit, w.stream)
    IN  /\ w.pc = "tell"
        /\ dirs' = dirs \cup unit_dir(w.unit)
        /\ files' = Touch(files, data)
        /\ writers' = [writers EXCEPT ![th].pc = "write",
                                      ![th].offset = Len(Content(files, data))]
        /\ UNCHANGED <<id_cache, id_cache_loaded, now, nextId, written, links>>

\* f.write(payload); f.flush(): the line lands at the end of the data file
WriterWrite(th) ==
    LET w == writers[th]
        line == json_dumps(w.rec) \o <<"\n">>
    IN  /\ w.pc = "write"
        /\ files' = append_bytes(files, data_path(w.unit, w.stream), line).fs
        /\ writers' = [writers EXCEPT ![th].pc = "unit_index", ![th].length = Len(line)]
        /\ UNCHANGED <<dirs, id_cache, id_cache_loaded, now, nextId, written, links>>

\* the rest of write: the append to the unit index, the append to the global
\* index, and the cache entry with the return of OK, one step each; every
\* entry carries the offset the thread read and the length of its line
WriterIndex(th) ==
    LET w == writers[th]
    IN  \/ /\ w.pc = "unit_index"
           /\ files' = append_bytes(files, index_path(w.unit, w.stream),
                                    <<uidx_entry(w.rec, w.offset, w.length)>>).fs
           /\ writers' = [writers EXCEPT ![th].pc = "global_index"]
           /\ UNCHANGED <<dirs, id_cache, id_cache_loaded, now, nextId, written, links>>
        \/ /\ w.pc = "global_index"
           /\ files' = append_bytes(files, global_index_path,
                                    <<gidx_entry(w.rec, w.unit, w.stream, w.offset,
                                                 w.length)>>).fs
           /\ writers' = [writers EXCEPT ![th].pc = "cache"]
           /\ UNCHANGED <<dirs, id_cache, id_cache_loaded, now, nextId, written, links>>
        \/ /\ w.pc = "cache"
           /\ id_cache' = (w.rec.id :> Loc(w.unit, w.stream, w.offset, w.length)) @@ id_cache
           /\ written' = written \o <<[unit |-> w.unit, stream |-> w.stream, rec |-> w.rec,
                                        offset |-> w.offset, len |-> w.length]>>
           /\ writers' = [writers EXCEPT ![th] = Idle]
           /\ UNCHANGED <<dirs, files, id_cache_loaded, now, nextId, links>>

\* ---- a rebuild, step by step.  The scan reads the data as it is at that
\* moment into the tmp file; os.replace puts the tmp file in the place of the
\* index later, whatever was appended to the index in between.

\* rebuild_unit_index up to the end of the scan: the unit directory is made,
\* and with the data file there its entries are in the tmp file
UnitRebuildScan(th, unit, stream) ==
    LET data == data_path(unit, stream)
    IN  /\ writers[th].pc = "idle"
        /\ dirs' = dirs \cup unit_dir(unit)
        /\ IF ~Exists(files, data)
           THEN UNCHANGED <<files, writers>>
           ELSE /\ files' = (tmp_path(index_path(unit, stream))
                                :> UnitEntries(ReadLines(files[data]), now)) @@ files
                /\ writers' = [writers EXCEPT ![th] =
                                  [Idle EXCEPT !.pc = "replace_unit", !.unit = unit,
                                               !.stream = stream]]
        /\ UNCHANGED <<id_cache, id_cache_loaded, now, nextId, written, links>>

\* os.replace(tmp, idx) and the return of OK
UnitRebuildReplace(th) ==
    LET w == writers[th]
        idx == index_path(w.unit, w.stream)
    IN  /\ w.pc = "replace_unit"
        /\ files' = (idx :> files[tmp_path(idx)]) @@ Remove(files, tmp_path(idx))
        /\ writers' = [writers EXCEPT ![th] = Idle]
        /\ UNCHANGED <<dirs, id_cache, id_cache_loaded, now, nextId, written, links>>

\* rebuild_global_index up to the end of the scan of the data files
GlobalRebuildScan(th) ==
    \E walk \in WalkOrders(files) :
        /\ writers[th].pc = "idle"
        /\ files' = (tmp_path(global_index_path) :> GlobalScan(files, walk, now)) @@ files
        /\ writers' = [writers EXCEPT ![th] = [Idle EXCEPT !.pc = "replace_global"]]
        /\ UNCHANGED <<dirs, id_cache, id_cache_loaded, now, nextId, written, links>>

\* os.replace(tmp, g); then the cache is cleared and OK returned
GlobalRebuildReplace(th) ==
    LET w == writers[th]
        tmp == tmp_path(global_index_path)
    IN  \/ /\ w.pc = "replace_global"
           /\ files' = (global_index_path :> files[tmp]) @@ Remove(files, tmp)
           /\ writers' = [writers EXCEPT ![th].pc = "clear"]
           /\ UNCHANGED <<dirs, id_cache, id_cache_loaded, now, nextId, written, links>>
        \/ /\ w.pc = "clear"
           /\ id_cache' = <<>>
           /\ id_cache_loaded' = FALSE
           /\ writers' = [writers EXCEPT ![th] = Idle]
           /\ UNCHANGED <<dirs, files, now, nextId, written, links>>

\* ---- get_by_id, step by step.  _load_id_cache_once tests the loaded flag
\* and sets it before it reads the global index.

\* thread th enters get_by_id(id): with the flag set the hydration is skipped,
\* else the flag is set and the scan is still to come
LookupBegin(th, id) ==
    /\ writers[th].pc = "idle"
    /\ writers' = [writers EXCEPT ![th] =
                      [pc |-> IF id_cache_loaded THEN "get" ELSE "scan", id |-> id,
                       status |-> OK]]
    /\ id_cache_loaded' = TRUE
    /\ UNCHANGED <<dirs, files, id_cache, now, nextId, written, links>>

\* the scan of the global index into the cache
LookupScan(th) ==
    /\ writers[th].pc = "scan"
    /\ id_cache' = CacheFrom(Content(files, global_index_path), id_cache)
    /\ writers' = [writers EXCEPT ![th].pc = "get"]
    /\ UNCHANGED <<dirs, files, id_cache_loaded, now, nextId, written, links>>

\* the cache lookup and the byte-range read, and then the return: the frame
\* keeps the status until the caller has taken it
LookupGet(th) ==
    LET w == writers[th]
    IN  \/ /\ w.pc = "get"
           /\ writers' = [writers EXCEPT ![th].pc = "returned",
                                         ![th].status = get_by_id(Store, w.id).status]
           /\ dirs' = get_by_id(Store, w.id).S.dirs
           /\ UNCHANGED <<files, id_cache, id_cache_loaded, now, nextId, written, links>>
        \/ /\ w.pc = "returned"
           /\ writers' = [writers EXCEPT ![th] = Idle]
           /\ UNCHANGED <<dirs, files, id_cache, id_cache_loaded, now, nextId, written,
                          links>>

\* a new store instance is constructed over the same directory
Restart ==
    /\ id_cache' = <<>>
    /\ id_cache_loaded' = FALSE
    /\ UNCHANGED <<dirs, files, now, nextId, written, writers, links>>

\* the clock moves on
Tick ==
    /\ now < MaxT
    /\ now' = now + 1
    /\ UNCHANGED <<dirs, files, id_cache, id_cache_loaded, nextId, written, writers, links>>

\* ------------------------------------------------------------- environment
IndexFiles(fs) == {p \in DOMAIN fs : p[2] \in {"events.index.jsonl", "summary.index.jsonl"}}

\* somebody deletes a unit index file
DeleteUnitIndex ==
    \E p \in IndexFiles(files) :
        /\ files' = Remove(files, p)
        /\ UNCHANGED <<dirs, id_cache, id_cache_loaded, now, nextId, written, writers, links>>

\* somebody deletes the global index file
DeleteGlobalIndex ==
    /\ Exists(files, global_index_path)
    /\ files' = Remove(files, global_index_path)
    /\ UNCHANGED <<dirs, id_cache, id_cache_loaded, now, nextId, written, writers, links>>

\* lines that some other writer may have left in a data file: a record
\* without t, a record without id, a line that is no JSON, and a line that
\* is no UTF-8
ForeignLines ==
    {json_dumps([id |-> "x", content |-> <<"a">>]) \o <<"\n">>,
     json_dumps([content |-> <<"a">>]) \o <<"\n">>,
     <<"#", "\n">>,
     <<InvalidUtf8, "\n">>}

RECURSIVE CountLines(_, _)
CountLines(fs, paths) ==
    IF paths = {} THEN 0
    ELSE LET p == CHOOSE q \in paths : TRUE
         IN  Len(ReadLines(fs[p])) + CountLines(fs, paths \ {p})

\* a data file gets a line the store did not write
ForeignAppend ==
    \E p \in DataFiles(files), line \in ForeignLines :
        /\ CountLines(files, DataFiles(files)) - Len(written) < MaxForeign
        /\ files' = append_bytes(files, p, line).fs
        /\ UNCHANGED <<dirs, id_cache, id_cache_loaded, now, nextId, written, writers, links>>

\* somebody deletes a data file, or cuts it off (to nothing, in the middle, or
\* before its last byte)
DamageDataFile ==
    \E p \in DataFiles(files) :
        /\ \/ files' = Remove(files, p)
           \/ \E cut \in {0, Len(files[p]) \div 2, Len(files[p]) - 1} :
                 /\ cut >= 0 /\ cut < Len(files[p])
                 /\ files' = (p :> SubSeq(files[p], 1, cut)) @@ files
        /\ UNCHANGED <<dirs, id_cache, id_cache_loaded, now, nextId, written, writers, links>>

\* --------------------------------------------------------- specifications
\* writes and reads by address
Next ==
    \/ Write
    \/ WriteSummary
    \/ Read
    \/ ReadLatestSummary
    \/ Tick

Spec == Init /\ [][Next]_vars

\* writes, lookups by id, global rebuilds and new store instances
NextId ==
    \/ Write
    \/ WriteSummary
    \/ GetById
    \/ RebuildGlobalIndex
    \/ Restart

SpecId == Init /\ [][NextId]_vars

\* writes that may fail or die at any step
NextFault ==
    \/ Write
    \/ WriteSummary
    \/ WriteFault
    \/ WriteSummaryFault
    \/ Restart

SpecFault == Init /\ [][NextFault]_vars

\* writes, deleted index files and rebuilds
NextTamper ==
    \/ Write
    \/ WriteSummary
    \/ DeleteUnitIndex
    \/ DeleteGlobalIndex
    \/ RebuildUnitIndex
    \/ RebuildGlobalIndex

SpecTamper == Init /\ [][NextTamper]_vars

\* writes, lines from other writers, and unit rebuilds as the clock moves
NextForeign ==
    \/ Write
    \/ ForeignAppend
    \/ RebuildUnitIndex
    \/ Tick

SpecForeign == Init /\ [][NextForeign]_vars

\* writes, deleted index files, and rebuilds and queries that may fail
NextRebuild ==
    \/ WriteText
    \/ DeleteUnitIndex
    \/ RebuildUnitIndexAt
    \/ RebuildGlobalIndexAt
    \/ QueryByTimeAt

SpecRebuild == Init /\ [][NextRebuild]_vars

\* writes that may fail, global rebuilds and lookups by id
SpecRecover == Init /\ [][WriteText \/ WriteFault \/ RebuildGlobalIndex \/ GetById]_vars

\* writes that may fail at an index append, reads, lookups and queries,
\* deleted index files, and rebuilds
SpecPair ==
    Init /\ [][\/ WriteText \/ WriteFaultAtIndex
               \/ Read \/ GetById \/ QueryByTimeAt
               \/ DeleteUnitIndex \/ DeleteGlobalIndex
               \/ RebuildUnitIndex \/ RebuildGlobalIndex]_vars

\* writes, lookups by id and new store instances over data files that get
\* deleted or cut off
SpecDamage == Init /\ [][WriteText \/ GetById \/ DamageDataFile \/ Restart]_vars

\* writes to three streams, unit rebuilds, deleted unit indexes and deleted
\* data files
SpecUnitRebuild ==
    Init /\ [][\/ \E address \in {AddrA, AddrASummary, AddrB} :
                     Wrote(write(Store, address, Text(<<"a">>), IdOf(nextId + 1), now, "none"))
               \/ RebuildUnitIndex
               \/ DeleteUnitIndex
               \/ \E p \in DataFiles(files) :
                     /\ files' = Remove(files, p)
                     /\ UNCHANGED <<dirs, id_cache, id_cache_loaded, now, nextId, written,
                                    writers, links>>]_vars

\* thread 1 in write while thread 2 is in rebuild_unit_index or in
\* rebuild_global_index
SpecOverlap ==
    Init /\ [][\/ \E address \in {AddrA, AddrB} : WriterBegin(1, address, Text(<<"a">>))
               \/ WriterTell(1)
               \/ WriterWrite(1)
               \/ WriterIndex(1)
               \/ \E unit \in {AddrA, AddrB} : UnitRebuildScan(2, unit, "events")
               \/ UnitRebuildReplace(2)
               \/ GlobalRebuildScan(2)
               \/ GlobalRebuildReplace(2)]_vars

\* two threads in get_by_id at the same time; writes and new store instances
\* come while no call is under way
SpecLookup ==
    Init /\ [][\/ (\A th \in Threads : writers[th].pc = "idle") /\ WriteText
               \/ (\A th \in Threads : writers[th].pc = "idle") /\ Restart
               \/ \E th \in Threads :
                     \/ \E id \in Ids : LookupBegin(th, id)
                     \/ LookupScan(th)
                     \/ LookupGet(th)]_vars

\* writes, reads, queries and rebuilds with links leading out of the base
SpecLink == Init /\ [][PlantLink \/ WriteLinked \/ LookupLinked \/ Tick]_vars

\* two threads in write at the same time, on any streams
SpecSame ==
    Init /\ [][\E th \in Threads :
                  \/ \E address \in {AddrA, AddrB}, content \in Texts :
                        WriterBegin(th, address, content)
                  \/ WriterTell(th)
                  \/ WriterWrite(th)
                  \/ WriterIndex(th)]_vars

\* two threads in write at the same time, never both on the same stream of
\* the same unit
SpecApart ==
    Init /\ [][\E th \in Threads :
                  \/ \E address \in {AddrA, AddrASummary, AddrB}, content \in Texts :
                        /\ \A o \in Threads \ {th} :
                              <<writers[o].unit, writers[o].stream>>
                                  # <<split_stream(address).unit, split_stream(address).stream>>
                        /\ WriterBegin(th, address, content)
                  \/ WriterTell(th)
                  \/ WriterWrite(th)
                  \/ WriterIndex(th)]_vars

\* writes at different times and queries by time
NextQuery ==
    \/ Write
    \/ WriteSummary
    \/ QueryByTime
    \/ Tick

SpecQuery == Init /\ [][NextQuery]_vars

\* ------------------------------------------------------ shared definitions
\* address A names stream s of unit u
Resolves(A, u, s) ==
    LET v == validate_address(A)
    IN  /\ ~IsNone(v)
        /\ ~split_stream(Get(v)).raised
        /\ split_stream(Get(v)).unit = u
        /\ split_stream(Get(v)).stream = s

StreamOf(path) == IF path[2] = "events.jsonl" THEN "events" ELSE "summary"

\* the records the successful writes put in stream s of unit u, in call order
RECURSIVE RecsOf(_, _, _)
RecsOf(w, u, s) ==
    IF w = <<>> THEN <<>>
    ELSE (IF Head(w).unit = u /\ Head(w).stream = s THEN <<Head(w).rec>> ELSE <<>>)
         \o RecsOf(Tail(w), u, s)

\* the records a data file holds, line by line
RecordsIn(fs, path) == DecodeLines(TextLines(Content(fs, path), <<>>))

\* ------------------------------------------------------------------ claims
\* C1: when write(A, C) has returned OK, read(A) returns OK and a record whose
\* content is C; that record is the last one when no later write went to the
\* same stream.
C1_RoundTrip ==
    \A i \in 1..Len(written) : \A A \in Addresses :
        Resolves(A, written[i].unit, written[i].stream) =>
            LET r == read(Store, A)
            IN  /\ r.status = OK
                /\ \E j \in 1..Len(r.out) : r.out[j].content = written[i].rec.content
                /\ (\A k \in (i + 1)..Len(written) :
                        ~(written[k].unit = written[i].unit
                          /\ written[k].stream = written[i].stream))
                       => r.out[Len(r.out)].content = written[i].rec.content

\* two writes to one stream, the first with a newline in its content
C1_Witness ==
    \E i, j \in 1..Len(written) :
        /\ i < j
        /\ written[i].unit = written[j].unit
        /\ written[i].stream = written[j].stream
        /\ written[i].rec.content = <<"b", "\n">>
        /\ written[j].rec.content = <<"a">>
        /\ read(Store, written[i].unit).status = OK

\* C3: after N successful writes to a stream, read of its address returns
\* exactly the N records, the i-th being the record of the i-th write.
C3_Ordering ==
    \A A \in Addresses :
        LET v == validate_address(A)
        IN  (~IsNone(v) /\ ~split_stream(Get(v)).raised) =>
                LET us == split_stream(Get(v))
                    recs == RecsOf(written, us.unit, us.stream)
                IN  recs # <<>> =>
                        /\ read(Store, A).status = OK
                        /\ read(Store, A).out = recs

\* three writes went to one stream
C3_Witness ==
    \E A \in Addresses :
        /\ Resolves(A, AddrA, "events")
        /\ Len(RecsOf(written, AddrA, "events")) >= 3
        /\ Len(read(Store, A).out) >= 3

\* C4: after successful writes only, every record of a data file has exactly
\* one entry in its unit index, in the same order, and exactly one entry in
\* the global index; no id occurs in two records or in two global entries.
C4_OneEntryEach ==
    LET g == Content(files, global_index_path)
        all == {<<p, k>> : p \in DataFiles(files), k \in 1..MaxIds}
        slots == {x \in all : x[2] <= Len(RecordsIn(files, x[1]))}
    IN  /\ \A p \in DataFiles(files) :
              LET recs == RecordsIn(files, p)
                  idx == Content(files, index_path(p[1], StreamOf(p)))
              IN  /\ Len(idx) = Len(recs)
                  /\ \A k \in 1..Len(recs) :
                        /\ idx[k].id = recs[k].id
                        /\ Cardinality({m \in 1..Len(g) : g[m].id = recs[k].id}) = 1
                        /\ \E m \in 1..Len(g) :
                              /\ g[m].id = recs[k].id
                              /\ g[m].address = p[1]
                              /\ g[m].stream = StreamOf(p)
        /\ \A x, y \in slots :
              RecordsIn(files, x[1])[x[2]].id = RecordsIn(files, y[1])[y[2]].id => x = y
        /\ \A m, n \in 1..Len(g) : g[m].id = g[n].id => m = n
        /\ Len(g) = Cardinality(slots)

\* three records in two data files
C4_Witness ==
    /\ Len(written) = 3
    /\ Cardinality(DataFiles(files)) = 2
    /\ Len(Content(files, global_index_path)) = 3

\* C2: once write or write_summary has returned OK, get_by_id of the new id
\* returns OK with exactly that record, in every later state: with a cache
\* never hydrated, one this lookup hydrates, or one hydrated before the write.
C2_LocatableById ==
    \A i \in 1..Len(written) :
        LET r == get_by_id(Store, written[i].rec.id)
        IN  /\ r.status = OK
            /\ r.out = <<written[i].rec>>

\* a cache not yet hydrated that holds one written id (written by this
\* instance) and lacks another (which this lookup has to hydrate)
C2_Witness ==
    /\ ~id_cache_loaded
    /\ \E i, j \in 1..Len(written) :
          /\ written[i].rec.id \in DOMAIN id_cache
          /\ written[j].rec.id \notin DOMAIN id_cache
          /\ get_by_id(Store, written[i].rec.id).status = OK
          /\ get_by_id(Store, written[j].rec.id).status = OK

StreamOfIndex(path) == IF path[2] = "events.index.jsonl" THEN "events" ELSE "summary"

\* the entry points at a record of its data file that carries the entry's id
PointsAtRecord(fs, unit, stream, e) ==
    LET rec == read_at(fs, unit, stream, e.offset, e.len)
    IN  /\ e.offset + e.len <= Len(Content(fs, data_path(unit, stream)))
        /\ ~IsNone(rec)
        /\ Get(rec).id = e.id

\* C5: a write appends to the data file, then the unit index, then the global
\* index, then updates the cache; so whatever step a write fails or dies at,
\* every index entry points at a record present in its data file, every
\* global entry has its unit entry, and every cached id has its global entry.
C5_DataBeforeIndex ==
    LET g == Content(files, global_index_path)
    IN  /\ \A p \in IndexFiles(files) : \A k \in 1..Len(files[p]) :
              PointsAtRecord(files, p[1], StreamOfIndex(p), files[p][k])
        /\ \A m \in 1..Len(g) :
              /\ PointsAtRecord(files, g[m].address, g[m].stream, g[m])
              /\ \E k \in 1..Len(Content(files, index_path(g[m].address, g[m].stream))) :
                    files[index_path(g[m].address, g[m].stream)][k].id = g[m].id
        /\ \A id \in DOMAIN id_cache : \E m \in 1..Len(g) : g[m].id = id

\* one write failed after its data append, another after its unit index append
C5_Witness ==
    /\ \E p \in DataFiles(files) :
          Len(RecordsIn(files, p)) = 2
          /\ Len(Content(files, index_path(p[1], StreamOf(p)))) = 1
    /\ \E p \in IndexFiles(files) :
          \E k \in 1..Len(files[p]) :
              \A m \in 1..Len(Content(files, global_index_path)) :
                  files[global_index_path][m].id # files[p][k].id

\* the store with one file deleted
Without(S, path) == [S EXCEPT !.files = Remove(@, path)]

\* (id, offset, length) of the unit index entries the writes produced
RECURSIVE WrittenTriples(_, _, _)
WrittenTriples(w, u, s) ==
    IF w = <<>> THEN <<>>
    ELSE (IF Head(w).unit = u /\ Head(w).stream = s
          THEN <<[id |-> Head(w).rec.id, offset |-> Head(w).offset, len |-> Head(w).len]>>
          ELSE <<>>)
         \o WrittenTriples(Tail(w), u, s)

Triples(idx) ==
    [k \in 1..Len(idx) |-> [id |-> idx[k].id, offset |-> idx[k].offset, len |-> idx[k].len]]

\* C6: for a stream holding K written records, deleting the unit index and
\* calling rebuild_unit_index returns OK and gives K entries whose
\* (id, offset, length) are, in order, those the writes had produced.
C6_UnitRebuildReproduces ==
    \A p \in DataFiles(files) :
        LET idx == index_path(p[1], StreamOf(p))
            r == rebuild_unit_index(Without(Store, idx), p[1], StreamOf(p), now)
        IN  /\ r.status = OK
            /\ Exists(r.S.files, idx)
            /\ Triples(r.S.files[idx]) = WrittenTriples(written, p[1], StreamOf(p))

\* a stream with two records whose index file has been deleted
C6_Witness ==
    \E p \in DataFiles(files) :
        /\ Len(RecordsIn(files, p)) >= 2
        /\ ~Exists(files, index_path(p[1], StreamOf(p)))
        /\ Len(rebuild_unit_index(Store, p[1], StreamOf(p), now).S.files[
                   index_path(p[1], StreamOf(p))]) >= 2

\* every line of the file that decodes to an object with an id has a t
AllTimed(b) ==
    \A k \in 1..Len(ReadLines(b)) :
        LET obj == json_loads(ReadLines(b)[k].line)
        IN  (~IsNone(obj) /\ "id" \in DOMAIN Get(obj)) => "t" \in DOMAIN Get(obj)

\* the unit index after rebuild_unit_index at time t1 and again at time t2
TwoRebuilds(p, t1, t2) ==
    LET idx == index_path(p[1], StreamOf(p))
        r1 == rebuild_unit_index(Store, p[1], StreamOf(p), t1)
        r2 == rebuild_unit_index(r1.S, p[1], StreamOf(p), t2)
    IN  [first |-> r1.S.files[idx], second |-> r2.S.files[idx]]

\* C7 as stated: two rebuilds in a row give identical index files, time field
\* included, whatever the data file holds.
C7_RebuildTwiceIdentical ==
    \A p \in DataFiles(files) : \A t2 \in now..MaxT :
        TwoRebuilds(p, now, t2).first = TwoRebuilds(p, now, t2).second

\* C7 as amended: two rebuilds in a row give the same entries in the same
\* order with the same id, offset and length; the time fields are the same
\* too when every record with an id carries a t.
C7_RebuildTwiceSameEntries ==
    \A p \in DataFiles(files) : \A t2 \in now..MaxT :
        LET two == TwoRebuilds(p, now, t2)
        IN  /\ Triples(two.first) = Triples(two.second)
            /\ AllTimed(files[p]) => two.first = two.second

\* a file with two records that carry a t and a line that is no record, and
\* time left for the clock to move between the rebuilds
C7_Witness ==
    \E p \in DataFiles(files) :
        /\ AllTimed(files[p])
        /\ Len(ReadLines(files[p])) = 3
        /\ Len(TwoRebuilds(p, now, MaxT).second) = 2
        /\ now < MaxT

\* the global index after _global_index.jsonl is deleted and rebuilt
Regenerated(walk) ==
    rebuild_global_index(Without(Store, global_index_path), walk, now).S.files[
        global_index_path]

SameEntry(g, w) ==
    /\ g.id = w.rec.id
    /\ g.address = w.unit
    /\ g.stream = w.stream
    /\ g.offset = w.offset
    /\ g.len = w.len

\* C8: after writes interleaved across units and streams, deleting the global
\* index and calling rebuild_global_index gives the entries the writes had
\* produced, in the same order (in the weakest reading: for at least one of
\* the orders in which the directory walk can yield the data files).
C8_GlobalRebuildSameOrder ==
    \E walk \in WalkOrders(files) :
        /\ Len(Regenerated(walk)) = Len(written)
        /\ \A k \in 1..Len(written) : SameEntry(Regenerated(walk)[k], written[k])

\* what the global rebuild does keep: exactly the entries the writes had
\* produced, each once, those of one data file in the order of their writes
GlobalRebuildKeepsEntries ==
    \A walk \in WalkOrders(files) :
        LET g == Regenerated(walk)
        IN  /\ Len(g) = Len(written)
            /\ \A k \in 1..Len(written) :
                  Cardinality({m \in 1..Len(g) : SameEntry(g[m], written[k])}) = 1
            /\ \A i, j \in 1..Len(written) :
                  (i < j /\ written[i].unit = written[j].unit
                         /\ written[i].stream = written[j].stream)
                      => \E m, n \in 1..Len(g) :
                            m < n /\ SameEntry(g[m], written[i]) /\ SameEntry(g[n], written[j])

\* C9: in every state reached by writes and rebuilds, each unit index entry
\* and each global index entry has offset + length within its data file, and
\* the bytes there decode to the record with the entry's id.
C9_ValidRanges ==
    /\ \A p \in IndexFiles(files) : \A k \in 1..Len(files[p]) :
          PointsAtRecord(files, p[1], StreamOfIndex(p), files[p][k])
    /\ \A m \in 1..Len(Content(files, global_index_path)) :
          LET g == files[global_index_path][m]
          IN  PointsAtRecord(files, g.address, g.stream, g)

\* a rebuilt global index (it is not in the order of the writes) and a unit
\* index with an entry at a positive offset
C9_Witness ==
    /\ Len(written) = 3
    /\ Len(Content(files, global_index_path)) = 3
    /\ files[global_index_path][1].id # written[1].rec.id
    /\ \E p \in IndexFiles(files) : Len(files[p]) = 2 /\ files[p][2].offset > 0

\* the written records of unit u, stream s (any unit or stream when Absent)
\* whose time lies in [lo, hi], in the order of the writes
RECURSIVE WrittenInWindow(_, _, _, _, _)
WrittenInWindow(w, u, s, lo, hi) ==
    IF w = <<>> THEN <<>>
    ELSE (IF /\ u \in {Absent, Some(Head(w).unit)}
             /\ s \in {Absent, Some(Head(w).stream)}
             /\ lo <= Head(w).rec.t
             /\ Head(w).rec.t <= hi
          THEN <<Head(w).rec>> ELSE <<>>)
         \o WrittenInWindow(Tail(w), u, s, lo, hi)

FirstN(seq, n) == SubSeq(seq, 1, Min(n, Len(seq)))

\* C11: query_by_time with limit L >= 1 returns at most L records, and they
\* are the first L matches in index order.
C11_LimitTruncation ==
    \A start \in Times : \A end \in start..MaxT : \A L \in 1..MaxIds :
        /\ Exists(files, global_index_path) =>
              LET r == query_by_time(Store, Epoch(start), Epoch(end), Absent, Absent, Some(L))
              IN  /\ r.status = OK
                  /\ Len(r.out) <= L
                  /\ r.out = FirstN(WrittenInWindow(written, Absent, Absent, start, end), L)
        /\ \A A \in {AddrA, AddrB} : \A s \in Streams :
              Exists(files, index_path(A, s)) =>
                  LET r == query_by_time(Store, Epoch(start), Epoch(end), Some(A), Some(s),
                                         Some(L))
                  IN  /\ r.status = OK
                      /\ Len(r.out) <= L
                      /\ r.out = FirstN(WrittenInWindow(written, Some(A), Some(s), start, end), L)

\* three records match and the query with limit 2 returns the first two
C11_Witness ==
    /\ Len(written) = 3
    /\ Len(query_by_time(Store, Epoch(0), Epoch(MaxT), Absent, Absent, Absent).out) = 3
    /\ query_by_time(Store, Epoch(0), Epoch(MaxT), Absent, Absent, Some(2)).out
           = <<written[1].rec, written[2].rec>>

\* C12: every operation that takes an address returns INVALID_ADDRESS for an
\* address that is empty after trimming or has a "..", "." or empty segment
\* or a character outside [A-Za-z0-9_-/], and changes no directory, file or
\* cache entry.
C12_AddressRejection ==
    \A A \in RejectedAddresses :
        /\ write(Store, A, Text(<<"a">>), IdOf(nextId + 1), now, "none")
               = Unchanged(Store, INVALID_ADDRESS)
        /\ write_summary(Store, A, Text(<<"a">>), NoSources, IdOf(nextId + 1), now, "none")
               = Unchanged(Store, INVALID_ADDRESS)
        /\ read(Store, A) = [S |-> Store, status |-> INVALID_ADDRESS, out |-> <<>>]
        /\ rebuild_unit_index(Store, A, "events", now)
               = [S |-> Store, status |-> INVALID_ADDRESS]
        /\ query_by_time(Store, Epoch(0), Epoch(MaxT), Some(A), Absent, Absent)
               = [S |-> Store, status |-> INVALID_ADDRESS, out |-> <<>>]

\* the same for the addresses that do not end in a newline once trimmed
AddressRejectionButNewline ==
    \A A \in RejectedAddresses \ {AddrNewline} :
        /\ write(Store, A, Text(<<"a">>), IdOf(nextId + 1), now, "none")
               = Unchanged(Store, INVALID_ADDRESS)
        /\ write_summary(Store, A, Text(<<"a">>), NoSources, IdOf(nextId + 1), now, "none")
               = Unchanged(Store, INVALID_ADDRESS)
        /\ read(Store, A) = [S |-> Store, status |-> INVALID_ADDRESS, out |-> <<>>]
        /\ rebuild_unit_index(Store, A, "events", now)
               = [S |-> Store, status |-> INVALID_ADDRESS]
        /\ query_by_time(Store, Epoch(0), Epoch(MaxT), Some(A), Absent, Absent)
               = [S |-> Store, status |-> INVALID_ADDRESS, out |-> <<>>]

\* C13: the bare summary marker is rejected with INVALID_ADDRESS by write and
\* by read, write_summary does not accept it as a unit address, and no file
\* or directory is made for it.
C13_BareMarkerRejected ==
    /\ write(Store, AddrBareSummary, Text(<<"a">>), IdOf(nextId + 1), now, "none")
           = Unchanged(Store, INVALID_ADDRESS)
    /\ read(Store, AddrBareSummary) = [S |-> Store, status |-> INVALID_ADDRESS, out |-> <<>>]
    /\ LET r == write_summary(Store, AddrBareSummary, Text(<<"a">>), NoSources,
                              IdOf(nextId + 1), now, "none")
       IN  r.status # OK /\ r.S = Store

\* what write and read do with the bare marker: IO_ERROR and no change
BareMarkerIsIoError ==
    /\ write(Store, AddrBareSummary, Text(<<"a">>), IdOf(nextId + 1), now, "none")
           = Unchanged(Store, IO_ERROR)
    /\ read(Store, AddrBareSummary) = [S |-> Store, status |-> IO_ERROR, out |-> <<>>]

\* C14: no public operation lets a fault escape: for every input and for a
\* failure at any internal step it returns one of the five statuses.
C14_NoFaultEscapes ==
    /\ \A A \in Addresses \cup RejectedAddresses :
          /\ \A fault \in Faults :
                /\ write(Store, A, Text(<<"a">>), IdOf(nextId + 1), now, fault).status
                       \in Statuses
                /\ write_summary(Store, A, Text(<<"a">>), NoSources, IdOf(nextId + 1), now,
                                 fault).status \in Statuses
          /\ read(Store, A).status \in Statuses
          /\ read_latest_summary(Store, A).status \in Statuses
          /\ \A fault \in StepFaults :
                /\ \A s \in Streams : \A done \in 0..MaxIds :
                      rebuild_unit_index_at(Store, A, s, now, fault, done, FALSE).status
                          \in Statuses
                /\ query_by_time_at(Store, Epoch(0), Epoch(MaxT), Some(A), Absent, Absent,
                                    fault).status \in Statuses
    /\ \A fault \in StepFaults :
          /\ query_by_time_at(Store, Epoch(0), Epoch(MaxT), Absent, Absent, Absent,
                              fault).status \in Statuses
          /\ \A walk \in WalkOrders(files) : \A done \in 0..MaxIds :
                rebuild_global_index_at(Store, walk, now, fault, done, FALSE).status
                    \in Statuses
    /\ \A id \in Ids \cup BlankIds \cup OtherIds : get_by_id(Store, id).status \in Statuses

\* the unit index the writes produced for stream s of unit u
RECURSIVE WrittenUnitIndex(_, _, _)
WrittenUnitIndex(w, u, s) ==
    IF w = <<>> THEN <<>>
    ELSE (IF Head(w).unit = u /\ Head(w).stream = s
          THEN <<[id |-> Head(w).rec.id, t |-> Head(w).rec.t,
                  offset |-> Head(w).offset, len |-> Head(w).len]>>
          ELSE <<>>)
         \o WrittenUnitIndex(Tail(w), u, s)

\* file path is in fs1 what it is in fs0: missing in both, or the same content
SameFile(fs0, fs1, path) ==
    /\ Exists(fs0, path) = Exists(fs1, path)
    /\ Content(fs0, path) = Content(fs1, path)

\* g is a complete global index: every written record once and nothing else
CompleteGlobal(g) ==
    /\ Len(g) = Len(written)
    /\ \A k \in 1..Len(written) :
          Cardinality({m \in 1..Len(g) : SameEntry(g[m], written[k])
                                           /\ g[m].t = written[k].rec.t}) = 1

\* C16: whatever step of a rebuild fails or is the last before the process
\* dies, the index file holds its complete previous content or the complete
\* new content; when the rebuild returns IO_ERROR it holds the previous one.
C16_RebuildAtomic ==
    \A fault \in StepFaults : \A done \in 0..MaxIds : \A crash \in BOOLEAN :
        /\ \A A \in {AddrA, AddrB} : \A s \in Streams :
              LET idx == index_path(A, s)
                  r == rebuild_unit_index_at(Store, A, s, now, fault, done, crash)
              IN  /\ \/ SameFile(files, r.S.files, idx)
                     \/ /\ Exists(r.S.files, idx)
                        /\ r.S.files[idx] = WrittenUnitIndex(written, A, s)
                  /\ r.status = IO_ERROR => SameFile(files, r.S.files, idx)
        /\ \A walk \in WalkOrders(files) :
              LET r == rebuild_global_index_at(Store, walk, now, fault, done, crash)
              IN  /\ \/ SameFile(files, r.S.files, global_index_path)
                     \/ /\ Exists(r.S.files, global_index_path)
                        /\ CompleteGlobal(r.S.files[global_index_path])
                  /\ r.status = IO_ERROR => SameFile(files, r.S.files, global_index_path)

\* a rebuild died in its scan: its temporary file holds some of the entries,
\* and the index file still holds its previous content, which is not what a
\* rebuild would derive
C16_Witness ==
    \E idx \in IndexFiles(files) :
        /\ Exists(files, tmp_path(idx))
        /\ Len(files[tmp_path(idx)]) >= 1
        /\ Len(files[tmp_path(idx)]) < Len(WrittenUnitIndex(written, idx[1], StreamOfIndex(idx)))
        /\ files[idx] # WrittenUnitIndex(written, idx[1], StreamOfIndex(idx))
        /\ files[idx] # files[tmp_path(idx)]

\* seq0 is the beginning of seq1
IsPrefix(seq0, seq1) == Len(seq0) <= Len(seq1) /\ SubSeq(seq1, 1, Len(seq0)) = seq0

\* C15: when the data append of a write has succeeded and the unit index
\* append or the global index append fails, the write returns IO_ERROR, the
\* record is in the data file and read returns it, nothing appended before
\* is taken back, and the cache does not get the new id.
C15_PartialWriteFailure ==
    \A A \in {AddrA, AddrASummary, AddrB} : \A fault \in {"unit_index", "global_index"} :
        LET rec == [id |-> IdOf(nextId + 1), ts |-> TsOf(now), t |-> now, content |-> <<"a">>]
            r == write(Store, A, Text(<<"a">>), rec.id, now, fault)
            us == split_stream(A)
        IN  /\ r.status = IO_ERROR
            /\ read(r.S, A).status = OK
            /\ read(r.S, A).out = read(Store, A).out \o <<rec>>
            /\ \A p \in DOMAIN files :
                  Exists(r.S.files, p) /\ IsPrefix(files[p], r.S.files[p])
            /\ fault = "global_index" =>
                  Len(r.S.files[index_path(us.unit, us.stream)])
                      = Len(Content(files, index_path(us.unit, us.stream))) + 1
            /\ r.S.cache = id_cache
            /\ rec.id \notin DOMAIN r.S.cache

\* a write has failed after its data append: a data file holds a record that
\* read returns and that neither the history of successful writes nor the
\* cache knows
C15_Witness ==
    \E A \in {AddrA, AddrASummary, AddrB} :
        LET us == split_stream(A)
            out == read(Store, A).out
        IN  /\ read(Store, A).status = OK
            /\ Len(out) > Len(RecsOf(written, us.unit, us.stream))
            /\ \E k \in 1..Len(out) : out[k].id \notin DOMAIN id_cache
            /\ Len(out) >= 2

\* C19: read_latest_summary(U) returns OK with the last record of U's summary
\* stream when the stream holds a decodable record, and NOT_FOUND with no
\* record when the stream was never written or holds no decodable record.
C19_LatestSummary ==
    \A U \in {AddrA, AddrB} :
        LET recs == RecordsIn(files, data_path(U, "summary"))
            r == read_latest_summary(Store, U)
        IN  IF recs # <<>>
            THEN r.status = OK /\ r.out = <<recs[Len(recs)]>>
            ELSE r.status = NOT_FOUND /\ r.out = <<>>

\* what holds instead for a summary file without a decodable record: OK and
\* no record
LatestSummaryOfEmptyFile ==
    \A U \in {AddrA, AddrB} :
        LET recs == RecordsIn(files, data_path(U, "summary"))
            r == read_latest_summary(Store, U)
        IN  /\ recs # <<>> => r.status = OK /\ r.out = <<recs[Len(recs)]>>
            /\ recs = <<>> => /\ r.out = <<>>
                              /\ r.status = IF Exists(files, data_path(U, "summary"))
                                            THEN OK ELSE NOT_FOUND

\* the ids of the entries of an index
IdsOf(idx) == {idx[k].id : k \in 1..Len(idx)}

\* C17: after rebuild_global_index has returned OK the cache is empty and
\* not hydrated; the next get_by_id hydrates it from the rebuilt index, and
\* get_by_id returns OK with the record for every record of every data file,
\* also for those whose index appends had failed.
C17_CacheAfterGlobalRebuild ==
    \A walk \in WalkOrders(files) :
        LET r == rebuild_global_index(Store, walk, now)
        IN  /\ r.status = OK
            /\ r.S.cache = <<>>
            /\ ~r.S.loaded
            /\ \A p \in DataFiles(files) : \A k \in 1..Len(RecordsIn(files, p)) :
                  LET rec == RecordsIn(files, p)[k]
                      g == get_by_id(r.S, rec.id)
                  IN  /\ g.status = OK
                      /\ g.out = <<rec>>
                      /\ g.S.loaded
                      /\ DOMAIN g.S.cache = IdsOf(r.S.files[global_index_path])

\* a record whose write failed after the data append is in the hydrated
\* cache: the global index was rebuilt and a lookup has loaded it
C17_Witness ==
    /\ id_cache_loaded
    /\ \E p \in DataFiles(files) : \E k \in 1..Len(RecordsIn(files, p)) :
          LET rec == RecordsIn(files, p)[k]
          IN  /\ \A i \in 1..Len(written) : written[i].rec.id # rec.id
              /\ rec.id \in DOMAIN id_cache
              /\ get_by_id(Store, rec.id).out = <<rec>>

\* C18: read(A) of a valid address returns (NOT_FOUND, nothing) exactly when
\* no write has reached the data file of A's stream, and (OK, the records)
\* otherwise; writing one stream of a unit leaves the other NOT_FOUND.
C18_ReadNotFound ==
    \A A \in {AddrA, AddrASlashes, AddrASummary, AddrB, AddrB \o <<"/">> \o SUMMARY_SEG} :
        LET us == split_stream(Get(validate_address(A)))
            recs == RecsOf(written, us.unit, us.stream)
            r == read(Store, A)
        IN  IF recs = <<>>
            THEN r.status = NOT_FOUND /\ r.out = <<>>
            ELSE r.status = OK /\ r.out = recs

\* only the summary stream of unit a has been written, and read has looked
\* at both streams: events is NOT_FOUND, summary is OK
C18_Witness ==
    /\ Len(written) >= 1
    /\ \A i \in 1..Len(written) : written[i].unit = AddrA /\ written[i].stream = "summary"
    /\ read(Store, AddrA).status = NOT_FOUND
    /\ read(Store, AddrASummary).status = OK
    /\ AddrB \in dirs

\* write_summary(U, text, src) in the current state: OK, the events stream of
\* U untouched, one line more in the summary data file, one entry more for it
\* in the unit index and in the global index, its location in the cache, the
\* same store as write(U/__summary__, text) at every step when no ids are
\* stored, and the record last in read_latest_summary(U) and
\* read(U/__summary__).  Carries(src, rec) is the clause on source_ids.
SummaryWritten(U, text, src, Carries(_, _)) ==
    LET id == IdOf(nextId + 1)
        A == U \o <<"/">> \o SUMMARY_SEG
        r == write_summary(Store, U, text, src, id, now, "none")
        data == data_path(U, "summary")
        events == data_path(U, "events")
        uidx == index_path(U, "summary")
        offset == Len(Content(files, data))
        all == read(r.S, A)
        rec == all.out[Len(all.out)]
        length == Len(json_dumps(rec)) + 1
    IN  /\ r.status = OK
        /\ Exists(r.S.files, events) = Exists(files, events)
        /\ Content(r.S.files, events) = Content(files, events)
        /\ Content(r.S.files, index_path(U, "events"))
               = Content(files, index_path(U, "events"))
        /\ r.S.files[data] = Content(files, data) \o json_dumps(rec) \o <<"\n">>
        /\ r.S.files[uidx] = Content(files, uidx) \o <<uidx_entry(rec, offset, length)>>
        /\ r.S.files[global_index_path]
               = Content(files, global_index_path)
                 \o <<gidx_entry(rec, U, "summary", offset, length)>>
        /\ r.S.cache = (id :> Loc(U, "summary", offset, length)) @@ id_cache
        /\ all.status = OK
        /\ all.out = read(Store, A).out \o <<rec>>
        /\ rec.id = id /\ rec.t = now /\ rec.content = text.s
        /\ Carries(src, rec)
        /\ read_latest_summary(r.S, U).status = OK
        /\ read_latest_summary(r.S, U).out = <<rec>>
        /\ src = NoSources =>
              \A fault \in Faults :
                  write_summary(Store, U, text, src, id, now, fault).S
                      = write(Store, A, text, id, now, fault).S

\* the stored record has source_ids equal to the given list
CarriesGiven(src, rec) ==
    src.given => "source_ids" \in DOMAIN rec /\ rec.source_ids = src.ids

\* the stored record has source_ids equal to a given list that is not empty,
\* and no source_ids for None and for the empty list
CarriesNonEmpty(src, rec) ==
    IF src.given /\ src.ids # <<>>
    THEN "source_ids" \in DOMAIN rec /\ rec.source_ids = src.ids
    ELSE "source_ids" \notin DOMAIN rec

\* C20 as stated: write_summary(U, text, source_ids) appends to the summary
\* stream of U and never to its events stream, by the same data, unit index,
\* global index, cache sequence as write; the stored record carries
\* source_ids equal to the given sequence in the given order; afterwards
\* read_latest_summary(U) and read(U/__summary__) return it as the last one.
C20_SummaryWrite ==
    \A U \in {AddrA, AddrB}, text \in Texts, src \in SourceLists :
        SummaryWritten(U, text, src, CarriesGiven)

\* C20 amended: the same, where the stored record carries source_ids equal to
\* the given sequence in the given order when that sequence is not empty, and
\* carries no source_ids when none or an empty sequence is given.
C20_SummaryWriteNonEmpty ==
    \A U \in {AddrA, AddrB}, text \in Texts, src \in SourceLists :
        SummaryWritten(U, text, src, CarriesNonEmpty)

\* write_summary has stored a record with ids x, y after events of the same
\* unit, and read_latest_summary returns it
C20_Witness ==
    /\ Len(written) >= 2
    /\ written[1].unit = AddrA /\ written[1].stream = "events"
    /\ LET w == written[Len(written)]
       IN  /\ w.unit = AddrA /\ w.stream = "summary"
           /\ "source_ids" \in DOMAIN w.rec
           /\ w.rec.source_ids = <<"x", "y">>
           /\ read_latest_summary(Store, AddrA).out = <<w.rec>>
           /\ read(Store, AddrA).out = RecsOf(written, AddrA, "events")

\* C21: get_by_id returns INVALID_PARAM for an id that is not a string or is
\* empty or blank, and then neither loads nor changes the cache; NOT_FOUND for
\* any other id that has no entry in the global index and none in the cache;
\* OK with the record of that id otherwise.
C21_GetByIdStatuses ==
    /\ \A id \in NonStrIds \cup BlankIds :
          get_by_id(Store, id) = [S |-> Store, status |-> INVALID_PARAM, out |-> <<>>]
    /\ \A id \in Ids \cup OtherIds :
          LET r == get_by_id(Store, id)
              known == \/ id \in IdsOf(Content(files, global_index_path))
                       \/ id \in DOMAIN id_cache
          IN  IF ~known THEN r.status = NOT_FOUND /\ r.out = <<>>
              ELSE /\ r.status = OK
                   /\ \E i \in 1..Len(written) : r.out = <<written[i].rec>> /\ written[i].rec.id = id

\* get_by_id has loaded the cache from an index of two records; a written id
\* is found, an id not yet drawn is not, a blank id changes nothing
C21_Witness ==
    /\ id_cache_loaded
    /\ Len(written) >= 2
    /\ written[2].rec.id \in DOMAIN id_cache
    /\ get_by_id(Store, written[2].rec.id).status = OK
    /\ get_by_id(Store, IdOf(MaxIds)).status = NOT_FOUND
    /\ get_by_id(Store, " ").S = Store

\* C22: query_by_time returns INVALID_PARAM with an empty result, and leaves
\* the store as it is, when the limit is given and is not a positive integer,
\* when the stream filter is given and is neither events nor summary, or when
\* start or end cannot be converted; whatever the address is, valid, never
\* written or invalid.
C22_QueryInvalidParam ==
    \A start \in {Epoch(0), Epoch(MaxT), BadTime}, end \in {Epoch(0), BadTime},
       address \in {Absent, Some(AddrB), Some(<<"c">>), Some(AddrDotDot)},
       stream \in {Absent, Some("events"), Some("other"), Some("")},
       limit \in {Absent, Some(2), Some(0), Some(0 - 1), NonInt(2)} :
        (\/ start = BadTime \/ end = BadTime
         \/ stream \in {Some("other"), Some("")}
         \/ limit \in {Some(0), Some(0 - 1), NonInt(2)})
        => query_by_time(Store, start, end, address, stream, limit)
               = [S |-> Store, status |-> INVALID_PARAM, out |-> <<>>]

\* records are written, so that a query with good parameters returns them,
\* and unit c was never looked at, so that a query of it makes its directory
C22_Witness ==
    /\ query_by_time(Store, Epoch(0), Epoch(MaxT), Some(AddrB), Absent, Absent).out # <<>>
    /\ query_by_time(Store, Epoch(0), Epoch(MaxT), Absent, Absent, Some(2)).status = OK
    /\ query_by_time(Store, Epoch(0), Epoch(MaxT), Some(<<"c">>), Absent, Absent).S # Store
    /\ query_by_time(Store, Epoch(0), Epoch(MaxT), Some(<<"c">>), Absent, Some(0)).S = Store

\* The state of the pair of the data file of stream s of unit u and its unit
\* index, in file system fs: absent, or consistent (the index holds the entry
\* of every record of the data file, in order), or stale.
PairState(fs, u, s) ==
    LET data == data_path(u, s)
        idx == index_path(u, s)
    IN  IF ~Exists(fs, data) /\ ~Exists(fs, idx) THEN "absent"
        ELSE IF Content(fs, idx) = UnitEntries(ReadLines(Content(fs, data)), 0)
        THEN "consistent"
        ELSE "stale"

\* the same for the data files together and the global index: consistent
\* when it holds the entry of every record of every data file, each once
GlobalState(fs) ==
    IF DataFiles(fs) = {} /\ ~Exists(fs, global_index_path) THEN "absent"
    ELSE LET g == Content(fs, global_index_path)
             all == GlobalScan(fs, CHOOSE walk \in WalkOrders(fs) : TRUE, 0)
         IN  IF /\ Len(g) = Len(all)
                /\ \A k \in 1..Len(all) : Cardinality({m \in 1..Len(g) : g[m] = all[k]}) = 1
             THEN "consistent"
             ELSE "stale"

\* a step of the store seen from one pair: from state before to state after
PairStep(before, after, wrote, Deleted, Rebuilt) ==
    /\ (before = "absent" /\ wrote) => after = "consistent"
    /\ (before = "consistent" /\ Len(written') > Len(written)) => after = "consistent"
    /\ (before # "stale" /\ after = "stale") => (Deleted \/ WriteFaultAtIndex)
    /\ (before = "stale" /\ after # "stale") => Rebuilt

\* an explicit rebuild makes every pair consistent
RebuildRestores ==
    /\ \A u \in {AddrA, AddrB}, s \in Streams :
          PairState(files, u, s) # "absent"
              => PairState(rebuild_unit_index(Store, u, s, now).S.files, u, s) = "consistent"
    /\ \A walk \in WalkOrders(files) :
          GlobalState(rebuild_global_index(Store, walk, now).S.files) = "consistent"

\* C23: a data/index pair goes from absent to consistent on the first
\* successful write, stays consistent under further successful writes, becomes
\* stale only when the index is deleted or a write fails between the data
\* append and the index append, and once stale is not made consistent by any
\* write, read, get_by_id or query_by_time: only by rebuild_unit_index
\* (rebuild_global_index for the global index), which does make it consistent.
C23_IndexPairStates ==
    /\ []RebuildRestores
    /\ [][\/ files' = files /\ written' = written
          \/ /\ \A u \in {AddrA, AddrB}, s \in Streams :
                    PairStep(PairState(files, u, s), PairState(files', u, s),
                             /\ Len(written') > Len(written)
                             /\ written'[Len(written')].unit = u
                             /\ written'[Len(written')].stream = s,
                             DeleteUnitIndex, RebuildUnitIndex)
             /\ PairStep(GlobalState(files), GlobalState(files'),
                         Len(written') > Len(written),
                         DeleteGlobalIndex, RebuildGlobalIndex)]_vars

\* the events pair of unit a is stale with two records in the data file and
\* an index that a write started anew after a deletion, the pair of unit b is
\* consistent, and the global index is stale
C23_Witness ==
    /\ PairState(files, AddrA, "events") = "stale"
    /\ Len(RecordsIn(files, data_path(AddrA, "events"))) = 2
    /\ Len(Content(files, index_path(AddrA, "events"))) = 1
    /\ PairState(files, AddrB, "events") = "consistent"
    /\ Exists(files, data_path(AddrB, "events"))
    /\ GlobalState(files) = "stale"
    /\ id_cache_loaded

\* file system fs1 keeps what fs0 holds: every data file of fs0 is in fs1 with
\* its content in fs0 as a prefix, and every index file of fs0 is in fs1
Keeps(fs0, fs1) ==
    /\ \A p \in DataFiles(fs0) : Exists(fs1, p) /\ IsPrefix(fs0[p], fs1[p])
    /\ \A p \in IndexFiles(fs0) \cup ({global_index_path} \cap DOMAIN fs0) : Exists(fs1, p)

\* C24: whatever operation is called in a reachable state (write,
\* write_summary, read, read_latest_summary, get_by_id, query_by_time, the two
\* rebuilds), failing or dying at any step, every data file keeps its previous
\* content as a prefix of its new content and no data or index file is
\* deleted.
C24_AppendOnly ==
    /\ \A fault \in Faults :
          /\ \A A \in {AddrA, AddrASummary, AddrB} :
                Keeps(files, write(Store, A, Text(<<"b", "\n">>), IdOf(nextId + 1), now,
                                   fault).S.files)
          /\ Keeps(files, write_summary(Store, AddrA, Text(<<"a">>), Sources(<<"x", "y">>),
                                        IdOf(nextId + 1), now, fault).S.files)
    /\ \A A \in Addresses : Keeps(files, read(Store, A).S.files)
    /\ Keeps(files, read_latest_summary(Store, AddrA).S.files)
    /\ \A id \in Ids : Keeps(files, get_by_id(Store, id).S.files)
    /\ \A fault \in StepFaults :
          /\ \A address \in {Absent, Some(AddrA), Some(AddrB)} :
                Keeps(files, query_by_time_at(Store, Epoch(0), Epoch(MaxT), address, Absent,
                                              Absent, fault).S.files)
          /\ \A done \in {1} : \A crash \in BOOLEAN :
                /\ \A u \in {AddrA, AddrB}, s \in Streams :
                      Keeps(files, rebuild_unit_index_at(Store, u, s, now, fault, done,
                                                         crash).S.files)
                /\ \A walk \in WalkOrders(files) :
                      Keeps(files, rebuild_global_index_at(Store, walk, now, fault, done,
                                                           crash).S.files)

\* a data file with two records whose index was deleted and started anew by a
\* write, next to the temporary file a rebuild left when it died: the next
\* rebuild replaces that index
C24_Witness ==
    \E u \in {AddrA, AddrB} :
        LET idx == index_path(u, "events")
        IN  /\ Len(RecordsIn(files, data_path(u, "events"))) = 2
            /\ Exists(files, idx)
            /\ Exists(files, tmp_path(idx))
            /\ rebuild_unit_index(Store, u, "events", now).S.files[idx] # files[idx]

\* no thread is inside write
Quiet == \A th \in Threads : writers[th].pc = "idle"

\* the store after the writes w made one after the other, each run alone
RECURSIVE Replay(_, _)
Replay(S, w) ==
    IF w = <<>> THEN S
    ELSE Replay(append_record(S, Head(w).unit, Head(w).stream, Head(w).rec, "none").S,
                Tail(w))

Alone == Replay([dirs |-> {}, files |-> <<>>, cache |-> <<>>, loaded |-> FALSE], written)

\* get_by_id finds every written record, with this instance's cache and with
\* the cache of a new instance
AllLocatable ==
    \A k \in 1..Len(written) : \A S \in {Store, Died(Store)} :
        /\ get_by_id(S, written[k].rec.id).status = OK
        /\ get_by_id(S, written[k].rec.id).out = <<written[k].rec>>

\* C25: when two threads write to different units or different streams at the
\* same time, then for every interleaving of their steps, once they have
\* returned, each data file and each unit index is what the writes give when
\* each runs alone, the global index holds one correct entry for each record,
\* in either order, and get_by_id finds both ids.
C25_IndependentWrites ==
    Quiet =>
        /\ \A u \in {AddrA, AddrB}, s \in Streams :
              /\ SameFile(Alone.files, files, data_path(u, s))
              /\ SameFile(Alone.files, files, index_path(u, s))
        /\ CompleteGlobal(Content(files, global_index_path))
        /\ \A m \in 1..Len(Content(files, global_index_path)) :
              \E n \in 1..Len(Content(Alone.files, global_index_path)) :
                  files[global_index_path][m] = Alone.files[global_index_path][n]
        /\ AllLocatable

\* two writes to the two streams of unit a overlapped: the one that began
\* first, with the first id, returned last, and its entry is the first of the
\* global index
C25_Witness ==
    /\ Quiet
    /\ Len(written) = 2
    /\ written[1].rec.id = IdOf(2) /\ written[2].rec.id = IdOf(1)
    /\ written[1].unit = AddrA /\ written[2].unit = AddrA
    /\ written[1].stream # written[2].stream
    /\ files[global_index_path][1].id = IdOf(1)

\* C26: when two threads write to the same stream at the same time, then for
\* every interleaving of their steps, once they have returned, both records
\* are whole in the data file, every unit index entry and global index entry
\* has the offset and length of its own record, and get_by_id of either id
\* returns the record with that id.
C26_SameStreamTruthful ==
    Quiet =>
        /\ \A k \in 1..Len(written) :
              LET w == written[k]
                  data == Content(files, data_path(w.unit, w.stream))
              IN  /\ \E i \in 0..Len(data) :
                        /\ i + w.len <= Len(data)
                        /\ SubSeq(data, i + 1, i + w.len) = json_dumps(w.rec) \o <<"\n">>
                  /\ w.offset + w.len <= Len(data)
                  /\ SubSeq(data, w.offset + 1, w.offset + w.len)
                         = json_dumps(w.rec) \o <<"\n">>
        /\ AllLocatable

\* what overlapping writes to one stream do keep: every record is whole in
\* its data file, once, and each index holds one entry for it
SameStreamRecordsWhole ==
    Quiet =>
        /\ \A u \in {AddrA, AddrB} :
              LET recs == RecordsIn(files, data_path(u, "events"))
              IN  /\ Len(recs) = Len(RecsOf(written, u, "events"))
                  /\ \A k \in 1..Len(written) :
                        written[k].unit = u
                            => Cardinality({i \in 1..Len(recs) : recs[i] = written[k].rec}) = 1
                  /\ Len(Content(files, index_path(u, "events"))) = Len(recs)
        /\ Len(Content(files, global_index_path)) = Len(written)

\* what read, read_latest_summary, query_by_time, rebuild_unit_index and
\* get_by_id leave of the store when called for unit u
Lookups(u) ==
    {read(Store, u).S, read(Store, u \o <<"/">> \o SUMMARY_SEG).S,
     read_latest_summary(Store, u).S,
     query_by_time(Store, Epoch(0), Epoch(MaxT), Some(u), Absent, Absent).S,
     rebuild_unit_index(Store, u, "events", now).S,
     rebuild_unit_index(Store, u, "summary", now).S}
    \cup {get_by_id(Store, id).S : id \in Ids}

NeverWritten(u) == u \notin dirs /\ \A k \in 1..Len(written) : written[k].unit # u

\* C27: a unit directory, a data file and an index file come into existence
\* only through a write or write_summary under that unit; read,
\* read_latest_summary, get_by_id, query_by_time and rebuild_unit_index on a
\* unit that was never written create no directory and no file for it, and
\* nothing is deleted.
C27_LazyLifecycle ==
    \A u \in {AddrB, <<"c">>} :
        NeverWritten(u) =>
            \A S \in Lookups(u) :
                /\ S.dirs = dirs
                /\ DOMAIN S.files = DOMAIN files

\* what these operations do keep: they create no file for a unit that was
\* never written, and remove no directory and no file
LookupsCreateNoFile ==
    \A u \in {AddrB, <<"c">>} :
        NeverWritten(u) =>
            \A S \in Lookups(u) :
                /\ dirs \subseteq S.dirs
                /\ DOMAIN S.files = DOMAIN files

\* what write, read, query_by_time and rebuild_unit_index return for unit u
\* with the links that are there
LinkedCalls(u) ==
    {write(Store, u, Text(<<"a">>), IdOf(nextId + 1), now, UnitDirFault(u)),
     IF UnitDirFault(u) = "none" THEN read(Store, u)
     ELSE [S |-> Store, status |-> IO_ERROR, out |-> <<>>],
     query_by_time_at(Store, Epoch(0), Epoch(MaxT), Some(u), Absent, Absent, UnitDirFault(u)),
     rebuild_unit_index_at(Store, u, "events", now, UnitDirFault(u), 1, FALSE)}

\* C28: every directory and file an operation creates, appends to, reads or
\* replaces is the base or below it; when an accepted address leads out of
\* the base through a symbolic link, the operation fails with a status and
\* creates and writes nothing outside the base.
C28_PathContainment ==
    \A u \in {AddrA, AddrB} : \A r \in LinkedCalls(u) :
        /\ \A p \in links.files : SameFile(files, r.S.files, p)
        /\ UnitDirFault(u) = "mkdir" =>
              /\ r.status \in Statuses \ {OK}
              /\ r.S = Store

\* what the check in _unit_dir does give: when the directory of a unit leads
\* out of the base, no operation makes a directory, creates a file or writes
\* to one, and write and read return IO_ERROR
DirLinkContained ==
    \A u \in {AddrA, AddrB} : \A r \in LinkedCalls(u) :
        UnitDirFault(u) = "mkdir" =>
            /\ r.S = Store
            /\ r.status \in {IO_ERROR, RAISED}

\* C29: query_by_time(start, end) and query_by_time(end, start), all other
\* arguments equal, return the same status and the same records in the same
\* order.
C29_QuerySymmetric ==
    \A start \in QueryTimes, end \in {Epoch(MaxT), BadTime},
       address \in {Absent, Some(AddrB)}, stream \in {Absent, Some("events")},
       limit \in {Absent, Some(1)} :
        LET there == query_by_time(Store, start, end, address, stream, limit)
            back == query_by_time(Store, end, start, address, stream, limit)
        IN  /\ there.status = back.status
            /\ there.out = back.out

\* records at the two ends of the time range: the inverted window returns
\* them all, the window that is only its start does not
C29_Witness ==
    /\ Len(query_by_time(Store, Epoch(MaxT), Epoch(0), Absent, Absent, Absent).out) >= 2
    /\ Len(query_by_time(Store, Epoch(MaxT), Epoch(MaxT), Absent, Absent, Absent).out) = 1
    /\ Len(query_by_time(Store, Epoch(MaxT), Epoch(0), Some(AddrB), Absent, Absent).out) >= 1

\* the records of the writes w, in call order
AllRecs(w) == [k \in 1..Len(w) |-> w[k].rec]

NonDecreasing(out) == \A i, j \in 1..Len(out) : i < j => out[i].t <= out[j].t

\* the whole time range, queried in store S: of a unit stream, and globally
UnitQuery(S, u, s) == query_by_time(S, Epoch(0), Epoch(MaxT), Some(u), Some(s), Absent).out
GlobalQuery(S) == query_by_time(S, Epoch(0), Epoch(MaxT), Absent, Absent, Absent).out

\* a unit query returns the records in the order of the data file, a global
\* query in the order of the writes, both non-decreasing in time; also after
\* rebuild_unit_index
OrderedBeforeGlobalRebuild ==
    /\ \A u \in {AddrA, AddrB}, s \in Streams :
          /\ RecsOf(written, u, s) # <<>> =>
                /\ UnitQuery(Store, u, s) = RecsOf(written, u, s)
                /\ UnitQuery(rebuild_unit_index(Store, u, s, now).S, u, s)
                       = RecsOf(written, u, s)
          /\ GlobalQuery(rebuild_unit_index(Store, u, s, now).S) = AllRecs(written)
    /\ GlobalQuery(Store) = AllRecs(written)
    /\ NonDecreasing(AllRecs(written))

\* C30: query_by_time returns its matches in write order, for a unit query
\* the order of the data file and for a global query the order of the writes
\* across all units and streams, non-decreasing in time, in every reachable
\* state and also after rebuild_unit_index and rebuild_global_index (in the
\* weakest reading: for at least one of the orders in which the directory
\* walk can yield the data files).
C30_QueryWriteOrder ==
    /\ OrderedBeforeGlobalRebuild
    /\ \E walk \in WalkOrders(files) :
          LET out == GlobalQuery(rebuild_global_index(Store, walk, now).S)
          IN  out = AllRecs(written) /\ NonDecreasing(out)

\* the records of the lines of a data file that decode, in file order
RECURSIVE Decodable(_)
Decodable(lines) ==
    IF lines = <<>> THEN <<>>
    ELSE json_loads(Head(lines).line) \o Decodable(Tail(lines))

\* those of them that carry an id
RECURSIVE WithId(_)
WithId(recs) ==
    IF recs = <<>> THEN <<>>
    ELSE (IF "id" \in DOMAIN Head(recs) THEN <<Head(recs)>> ELSE <<>>) \o WithId(Tail(recs))

\* entry e gives the byte position and the size of one whole line of the
\* bytes b, and that line decodes to rec
IsLineOf(b, e, rec) ==
    /\ e.len >= 1 /\ e.offset + e.len <= Len(b)
    /\ e.offset = 0 \/ b[e.offset] = "\n"
    /\ \A k \in 1..e.len : (b[e.offset + k] = "\n") <=> (k = e.len)
    /\ json_loads(SubSeq(b, e.offset + 1, e.offset + e.len)) = Some(rec)

\* an index has one entry for each of the records, in their order, each
\* entry giving the line of its record in the data file of its stream
EntryEach(fs, idx, recs, unit, stream) ==
    /\ Len(idx) = Len(recs)
    /\ \A k \in 1..Len(idx) :
          /\ idx[k].id = recs[k].id
          /\ IsLineOf(fs[data_path(unit, stream)], idx[k], recs[k])

\* the rebuilds skip the lines that do not decode, one by one
RebuildsSkipMalformed ==
    /\ \A u \in {AddrA, AddrB} :
          Exists(files, data_path(u, "events")) =>
              LET r == rebuild_unit_index(Store, u, "events", now)
              IN  /\ r.status = OK
                  /\ EntryEach(files, r.S.files[index_path(u, "events")],
                               WithId(Decodable(ReadLines(files[data_path(u, "events")]))),
                               u, "events")
    /\ \A walk \in WalkOrders(files) :
          LET r == rebuild_global_index(Store, walk, now)
              g == r.S.files[global_index_path]
          IN  /\ r.status = OK
              /\ \A u \in {AddrA, AddrB} :
                    Exists(files, data_path(u, "events")) =>
                        EntryEach(files, SelectSeq(g, LAMBDA e : e.address = u /\ e.stream = "events"),
                                  WithId(Decodable(ReadLines(files[data_path(u, "events")]))),
                                  u, "events")

\* read skips the lines that do not decode, when they are UTF-8
ReadSkipsMalformedText ==
    \A u \in {AddrA, AddrB} :
        (/\ Exists(files, data_path(u, "events"))
         /\ InvalidUtf8 \notin Range(files[data_path(u, "events")])) =>
            /\ read(Store, u).status = OK
            /\ read(Store, u).out = Decodable(ReadLines(files[data_path(u, "events")]))

\* C31: when a data file holds lines that do not decode among records, read
\* returns OK with the decodable records in file order, and the rebuilds
\* return OK with one entry per decodable record that has an id, each entry
\* giving the true byte position and size of its line.
C31_MalformedSkipped ==
    /\ RebuildsSkipMalformed
    /\ \A u \in {AddrA, AddrB} :
          Exists(files, data_path(u, "events")) =>
              /\ read(Store, u).status = OK
              /\ read(Store, u).out = Decodable(ReadLines(files[data_path(u, "events")]))

\* the store with its cache dropped, to be hydrated again by the next lookup
Dropped(S) == [S EXCEPT !.cache = <<>>, !.loaded = FALSE]

\* C32: the identifier cache is derived from the global index: every cache
\* entry equals address, stream, offset and length of the global index entry
\* with its id; once hydrated, the cache holds every valid entry of the global
\* index; and get_by_id answers as it would with the cache dropped and
\* hydrated again from the global index.
C32_CacheDerived ==
    LET g == Content(files, global_index_path)
    IN  /\ \A id \in DOMAIN id_cache :
              \E k \in 1..Len(g) :
                  /\ g[k].id = id
                  /\ id_cache[id] = Loc(g[k].address, g[k].stream, g[k].offset, g[k].len)
        /\ id_cache_loaded =>
              \A k \in 1..Len(g) : ValidGlobalEntry(g[k]) => g[k].id \in DOMAIN id_cache
        /\ \A id \in Ids \cup OtherIds :
              LET kept == get_by_id(Store, id)
                  fresh == get_by_id(Dropped(Store), id)
              IN  kept.status = fresh.status /\ kept.out = fresh.out

\* a hydrated cache that holds a record written before the hydration and one
\* written after it
C32_Witness ==
    /\ id_cache_loaded
    /\ Cardinality(DOMAIN id_cache) >= 2
    /\ Len(Content(files, global_index_path)) >= 2
    /\ get_by_id(Store, IdOf(2)).status = OK
    /\ get_by_id(Dropped(Store), IdOf(1)).status = OK

\* the location the lookup of id finds: the cache entry, after hydration
Found(id) == load_id_cache_once(Store).cache[id]

\* the bytes of the data file at a location; none when the file is missing
BytesAt(loc) ==
    LET p == data_path(loc.address, loc.stream)
    IN  IF ~Exists(files, p) THEN <<>>
        ELSE SubSeq(files[p], loc.offset + 1, Min(loc.offset + loc.length, Len(files[p])))

\* C33: when get_by_id finds the id in the cache but the data file is missing
\* or the bytes at the location do not decode, it returns IO_ERROR and no
\* record; it returns OK only with the record the bytes at the location
\* decode to.
C33_FailedRangeRead ==
    \A id \in Ids :
        id \in DOMAIN load_id_cache_once(Store).cache =>
            LET loc == Found(id)
                missing == ~Exists(files, data_path(loc.address, loc.stream))
                r == get_by_id(Store, id)
            IN  /\ r.status \in {OK, IO_ERROR}
                /\ (missing \/ IsNone(json_loads(BytesAt(loc)))) =>
                      r.status = IO_ERROR /\ r.out = <<>>
                /\ r.status = OK =>
                      ~missing /\ r.out # <<>> /\ r.out = json_loads(BytesAt(loc))

\* one cached id whose data file is gone, one whose bytes are cut off in the
\* middle of the record, and one that is still read
C33_Witness ==
    \E i, j, k \in Ids :
        /\ {i, j, k} \subseteq DOMAIN id_cache
        /\ id_cache_loaded
        /\ ~Exists(files, data_path(Found(i).address, Found(i).stream))
        /\ Exists(files, data_path(Found(j).address, Found(j).stream))
        /\ BytesAt(Found(j)) # <<>> /\ IsNone(json_loads(BytesAt(Found(j))))
        /\ get_by_id(Store, j).status = IO_ERROR
        /\ get_by_id(Store, k).status = OK

\* the store with every index file deleted
NoIndexes(S) == [S EXCEPT !.files = [p \in DataFiles(S.files) |-> S.files[p]]]

\* read(A) answers the same with the indexes as they are, deleted, and rebuilt
ReadSeesOnlyData ==
    \A A \in {AddrA, AddrB} :
        LET r == read(Store, A)
            Same(S) == read(S, A).status = r.status /\ read(S, A).out = r.out
        IN  /\ Same(NoIndexes(Store))
            /\ Same(rebuild_unit_index(Store, A, "events", now).S)
            /\ \A walk \in WalkOrders(files) : Same(rebuild_global_index(Store, walk, now).S)
            /\ Exists(files, data_path(A, "events")) => r.status = OK /\ r.out # <<>>

\* query_by_time returns no record without an entry in the index it reads,
\* and NOT_FOUND when that index file is absent
QueryTrustsIndex ==
    /\ \A u \in {AddrA, AddrB} :
          LET q == query_by_time(Store, Epoch(0), Epoch(MaxT), Some(u), Absent, Absent)
              idx == index_path(u, "events")
          IN  /\ ~Exists(files, idx) => q.status = NOT_FOUND /\ q.out = <<>>
              /\ \A k \in 1..Len(q.out) : q.out[k].id \in IdsOf(Content(files, idx))
    /\ LET q == query_by_time(Store, Epoch(0), Epoch(MaxT), Absent, Absent, Absent)
       IN  /\ ~Exists(files, global_index_path) => q.status = NOT_FOUND /\ q.out = <<>>
           /\ \A k \in 1..Len(q.out) : q.out[k].id \in IdsOf(Content(files, global_index_path))

NonTextGives(A, status) ==
    \A fault \in Faults :
        /\ write(Store, A, NonText, IdOf(nextId + 1), now, fault) = Unchanged(Store, status)
        /\ \A src \in SourceLists :
              write_summary(Store, A, NonText, src, IdOf(nextId + 1), now, fault)
                  = Unchanged(Store, status)

\* a content that is not text is refused with INVALID_PARAM and no change at
\* a valid address, and with INVALID_ADDRESS at an address the validation
\* rejects; the bare marker and an address ending in a newline pass the
\* validation, so the content check answers for them
NonTextRejectedUnchanged ==
    /\ \A A \in {AddrA, AddrASlashes, AddrASummary, AddrB} : NonTextGives(A, INVALID_PARAM)
    /\ \A A \in RejectedAddresses \ {AddrNewline} : NonTextGives(A, INVALID_ADDRESS)
    /\ \A A \in {AddrNewline, AddrBareSummary} : NonTextGives(A, INVALID_PARAM)

\* C35: write and write_summary with a content that is not text return
\* INVALID_PARAM and leave the data files, the indexes, the directory tree and
\* the cache unchanged; with an invalid address as well, they return
\* INVALID_ADDRESS.
C35_NonTextContent ==
    /\ \A A \in {AddrA, AddrASlashes, AddrASummary, AddrB} : NonTextGives(A, INVALID_PARAM)
    /\ \A A \in RejectedAddresses \cup {AddrBareSummary} : NonTextGives(A, INVALID_ADDRESS)

\* every file but path is there or not, with the same content, in both
SameBut(fs0, fs1, path) ==
    \A p \in (DOMAIN fs0 \cup DOMAIN fs1) \ {path} :
        /\ Exists(fs0, p) <=> Exists(fs1, p)
        /\ Exists(fs0, p) => fs0[p] = fs1[p]

\* C36: rebuild_unit_index(U, S) changes only the index file of stream S of
\* unit U; the data files, every other unit index, the global index and the
\* cache are unchanged.  It returns NOT_FOUND and leaves every file as it is
\* when the data file of the stream does not exist, and INVALID_PARAM with
\* nothing changed when S is not a stream.
C36_UnitRebuildFrame ==
    \A U \in {AddrA, AddrASlashes, AddrB}, S \in Streams \cup {"other"} :
        LET r == rebuild_unit_index(Store, U, S, now)
            unit == Get(validate_address(U))
        IN  /\ r.S.cache = id_cache /\ r.S.loaded = id_cache_loaded
            /\ IF S \notin Streams THEN r.status = INVALID_PARAM /\ r.S = Store
               ELSE IF ~Exists(files, data_path(unit, S))
               THEN r.status = NOT_FOUND /\ r.S.files = files
               ELSE /\ r.status = OK
                    /\ SameBut(files, r.S.files, index_path(unit, S))
                    /\ Exists(r.S.files, index_path(unit, S))
                    /\ r.S.dirs = dirs

\* unit a has both streams and a stale events index that a rebuild changes,
\* and unit b has an events index left without its data file
C36_Witness ==
    /\ Exists(files, data_path(AddrA, "summary"))
    /\ Exists(files, index_path(AddrA, "summary"))
    /\ Exists(files, data_path(AddrA, "events"))
    /\ Exists(files, global_index_path)
    /\ id_cache # <<>>
    /\ rebuild_unit_index(Store, AddrA, "events", now).S.files # files
    /\ ~Exists(files, data_path(AddrB, "events"))
    /\ Exists(files, index_path(AddrB, "events"))
    /\ rebuild_unit_index(Store, AddrB, "events", now).status = NOT_FOUND

\* every written record has its entry in the unit index of its stream
UnitIndexHasWritten(S) ==
    \A k \in 1..Len(written) :
        \E i \in 1..Len(Content(S.files, index_path(written[k].unit, written[k].stream))) :
            LET e == S.files[index_path(written[k].unit, written[k].stream)][i]
            IN  /\ e.id = written[k].rec.id
                /\ e.offset = written[k].offset
                /\ e.len = written[k].len

\* C37: for every interleaving of rebuild_unit_index with a write to the same
\* stream that returns OK, once both have finished the unit index contains an
\* entry for the written record.
C37_WriteSurvivesUnitRebuild == Quiet => UnitIndexHasWritten(Store)

\* the data files keep every written record, and a rebuild_unit_index that
\* runs alone afterwards gives the unit index its entry
WrittenRestoredByUnitRebuild ==
    Quiet =>
        \A u \in {AddrA, AddrB} :
            /\ RecordsIn(files, data_path(u, "events")) = RecsOf(written, u, "events")
            /\ RecsOf(written, u, "events") # <<>> =>
                  Triples(rebuild_unit_index(Store, u, "events", now).S
                              .files[index_path(u, "events")])
                      = WrittenTriples(written, u, "events")

\* C39: for every interleaving of rebuild_global_index with a write that
\* returns OK, once both have finished get_by_id of the written record's id
\* returns OK and the global index contains its entry.
C39_WriteSurvivesGlobalRebuild ==
    Quiet =>
        \A k \in 1..Len(written) :
            /\ written[k].rec.id \in IdsOf(Content(files, global_index_path))
            /\ get_by_id(Store, written[k].rec.id).status = OK

\* a rebuild_global_index that runs alone afterwards makes every written
\* record locatable again
WrittenRestoredByGlobalRebuild ==
    Quiet =>
        \A walk \in WalkOrders(files) : \A k \in 1..Len(written) :
            LET S == rebuild_global_index(Store, walk, now).S
            IN  /\ written[k].rec.id \in IdsOf(S.files[global_index_path])
                /\ get_by_id(S, written[k].rec.id).status = OK
                /\ get_by_id(S, written[k].rec.id).out = <<written[k].rec>>

\* C38: when two threads call get_by_id at the same time on a store whose
\* cache is not hydrated, neither call returns NOT_FOUND for an id that has
\* an entry in the global index.
C38_ConcurrentHydration ==
    \A th \in Threads :
        (/\ writers[th].pc = "returned"
         /\ writers[th].id \in IdsOf(Content(files, global_index_path)))
            => writers[th].status # NOT_FOUND

\* a call that finds the id returns OK, no call returns a status other than
\* OK and NOT_FOUND, and once the calls have returned get_by_id finds every
\* written record
LookupsFindAfterHydration ==
    /\ \A th \in Threads :
          writers[th].pc = "returned" =>
              /\ writers[th].status \in {OK, NOT_FOUND}
              /\ writers[th].id \notin IdsOf(Content(files, global_index_path))
                    => writers[th].status = NOT_FOUND
    /\ Quiet =>
          \A k \in 1..Len(written) :
              /\ get_by_id(Store, written[k].rec.id).status = OK
              /\ get_by_id(Store, written[k].rec.id).out = <<written[k].rec>>

====
